---- MODULE Spec2Model ----
(***************************************************************************)
(* A model of the learn-blockchain node kernel: transactions, Merkle       *)
(* trees, blocks, proof of work, the mempool, the chain with its admission *)
(* and synchronisation operations, the Raft node, the PBFT instance and    *)
(* the payment channel.                                                    *)
(*                                                                         *)
(* Conventions.  SHA-256 is modelled as the collision-free wrapper Sha256  *)
(* on strings; the strings it is applied to are built exactly as the code  *)
(* builds them (plain concatenation, no separators).  Amounts are whole    *)
(* coins; the clock counts seconds, the granularity RFC3339 formatting     *)
(* keeps.  An ECDSA signature is the string EcdsaSign(key, hash); it       *)
(* verifies under a public key iff it was made with that key over that     *)
(* hash.                                                                   *)
(***************************************************************************)
EXTENDS Integers, Sequences, FiniteSets, TLC

VARIABLES
    Blocks,      \* bc.Blocks of the local chain
    Mempool,     \* bc.Mempool.transactions: the set of pending transactions (one per hash)
    now,         \* the wall clock, in seconds
    ret,         \* the operation that ran last and what it returned
    rn,          \* the Raft nodes: node id -> RaftNode
    net,         \* Raft messages handed out by one node and not yet processed by the addressee
    nodeBlocks,  \* rn.Blockchain.Blocks of every Raft node
    pbft,        \* one PBFT instance
    pc,          \* one payment channel
    sc,          \* one smart contract, the contract registry of the chain, or a bridge onto the chain
    thr          \* the goroutines running concurrently: connection handlers, contract calls

chainVars == <<Blocks, Mempool, now, ret>>
raftVars  == <<rn, net, nodeBlocks>>
vars      == <<Blocks, Mempool, now, ret, rn, net, nodeBlocks, pbft, pc, sc, thr>>

-----------------------------------------------------------------------------
(* Bounds of the model *)

MaxBlocks     == 3   \* chain length, genesis included
MaxTxPerBlock == 2   \* length of a transaction list handed to a block operation
MaxMempool    == 2   \* pending transactions
MaxTime       == 1   \* last second of the clock
MaxPeerLen    == 3   \* length of a chain received from a peer
HashBits      == 17  \* width of the modelled hash integer (256 in the code)
PowPeriod     == 2   \* one nonce in PowPeriod meets the target
MaxTerm       == 2   \* highest Raft term a node starts an election for
MaxLog        == 2   \* entries a Raft leader takes into its log
MaxAhead      == 1   \* how far past the end of the log NextIndex is counted up
MaxInFlight   == 3   \* Raft messages handed out and not yet processed
MaxReplInFlight == 2 \* the same, in the cluster that replicates entries by message
MaxMessages   == 7   \* length of the message log of the PBFT instance
MaxSeq        == 2   \* highest sequence number of a proposed channel state
MaxPending    == 2   \* proposed channel states waiting for signatures
MaxAmount     == 2   \* largest deposit and largest micropayment, either way
MaxSupply     == 100 \* largest finite total supply or balance, either way
MaxEscrow     == 100 \* largest sum of deposits held by the escrow contract
MaxCalls      == 2   \* calls one goroutine makes on a contract
PosPeriod     == 3   \* values of the normalised seed of the validator selection
MaxBridgeTxs  == 2   \* bridge transactions created on one bridge

(* Program constants *)

targetBits         == 16
BlockReward        == 50
InitialBlockReward == 100

-----------------------------------------------------------------------------
(* Helpers on sequences *)

Last(s) == s[Len(s)]

RECURSIVE SeqsUpTo(_, _)
SeqsUpTo(S, n) ==
    IF n = 0 THEN {<<>>}
    ELSE LET shorter == SeqsUpTo(S, n - 1)
         IN  shorter \cup {Append(s, x) : s \in {t \in shorter : Len(t) = n - 1}, x \in S}

RECURSIVE Orderings(_)
Orderings(S) ==
    IF S = {} THEN {<<>>}
    ELSE UNION {{<<x>> \o p : p \in Orderings(S \ {x})} : x \in S}

Min(a, b) == IF a < b THEN a ELSE b

-----------------------------------------------------------------------------
(* utils.go, transaction.go *)

Sha256(s) == "H(" \o s \o ")"

CalculateHash(data) == Sha256(data)

Itoa(n) == ToString(n)

\* fmt's %.8f of a whole number of coins
Fmt8(a) == ToString(a) \o ".00000000"

RFC3339(t) == "T" \o ToString(t) \o "Z"

EcdsaSign(key, hash) == "sig(" \o key \o "," \o hash \o ")"

NewTransactionWithFee(from, to, amount, fee) ==
    [From |-> from, To |-> to, Amount |-> amount, Fee |-> fee,
     Signature |-> "", PublicKey |-> "", ContractData |-> ""]

NewTransaction(from, to, amount) == NewTransactionWithFee(from, to, amount, 0)

TxHash(tx) == Sha256(tx.From \o tx.To \o Fmt8(tx.Amount) \o Fmt8(tx.Fee))

Sign(tx, privateKey) ==
    [tx EXCEPT !.Signature = EcdsaSign(privateKey, TxHash(tx)), !.PublicKey = privateKey]

Verify(tx) ==
    /\ tx.Signature # ""
    /\ tx.PublicKey # ""
    /\ tx.Signature = EcdsaSign(tx.PublicKey, TxHash(tx))

TotalCost(tx) == tx.Amount + tx.Fee

-----------------------------------------------------------------------------
(* merkle.go *)

NewMerkleLeaf(data) == Sha256(data)

NewMerkleParent(left, right) == Sha256(left \o right)

MerkleLevel(nodes) ==
    [k \in 1..((Len(nodes) + 1) \div 2) |->
        NewMerkleParent(nodes[2 * k - 1],
                        IF 2 * k <= Len(nodes) THEN nodes[2 * k] ELSE nodes[2 * k - 1])]

RECURSIVE MerkleReduce(_)
MerkleReduce(nodes) == IF Len(nodes) > 1 THEN MerkleReduce(MerkleLevel(nodes)) ELSE nodes[1]

\* NewMerkleTree(transactions).GetRootHash()
MerkleRoot(transactions) ==
    IF Len(transactions) = 0 THEN ""
    ELSE MerkleReduce([k \in 1..Len(transactions) |-> NewMerkleLeaf(TxHash(transactions[k]))])

-----------------------------------------------------------------------------
(* block.go, proofofwork.go *)

prepareData(block, nonce) ==
    Itoa(block.Index) \o block.PreviousHash \o RFC3339(block.Timestamp)
        \o block.MerkleRoot \o Itoa(nonce)

BlockCalculateHash(block) == CalculateHash(prepareData(block, block.Nonce))

Target == 2 ^ (HashBits - targetBits)

\* The integer value of sha256(prepareData(block, nonce)): a digest of the same fields
HashInt(block, nonce) ==
    ((block.Index + Len(block.PreviousHash) + block.Timestamp + Len(block.MerkleRoot) + nonce)
        % PowPeriod) * Target

RECURSIVE RunFrom(_, _)
RunFrom(block, nonce) ==
    IF HashInt(block, nonce) < Target THEN nonce ELSE RunFrom(block, nonce + 1)

\* ProofOfWork.Run followed by the caller's two assignments
Mine(block) ==
    LET nonce == RunFrom(block, 0)
    IN  [block EXCEPT !.Nonce = nonce, !.Hash = CalculateHash(prepareData(block, nonce))]

PowValidate(block) == HashInt(block, block.Nonce) < Target

NewBlock(index, timestamp, transactions, previousHash) ==
    [Index |-> index, Timestamp |-> timestamp, Transactions |-> transactions,
     MerkleRoot |-> MerkleRoot(transactions), PreviousHash |-> previousHash,
     Hash |-> "", Nonce |-> 0]

\* Consensus paths that do not mine: nonce 0 and the canonical hash
Sealed(block) == [block EXCEPT !.Hash = BlockCalculateHash(block)]

GenesisBlock(timestamp) ==
    Mine(NewBlock(0, timestamp, <<NewTransaction("", "Genesis", 0)>>, "0"))

-----------------------------------------------------------------------------
(* balance.go, rewards.go *)

\* ScanTxs with the fee left out of the debit
RECURSIVE ScanTxsNoFee(_, _, _)
ScanTxsNoFee(txs, address, balance) ==
    IF Len(txs) = 0 THEN balance
    ELSE LET tx == Head(txs)
             afterDebit  == IF tx.From = address THEN balance - tx.Amount ELSE balance
             afterCredit == IF tx.To = address THEN afterDebit + tx.Amount ELSE afterDebit
         IN  IF tx.From = "" /\ tx.To = "Genesis"
             THEN ScanTxsNoFee(Tail(txs), address, balance)
             ELSE ScanTxsNoFee(Tail(txs), address, afterCredit)

RECURSIVE ScanTxs(_, _, _)
ScanTxs(txs, address, balance) ==
    IF Len(txs) = 0 THEN balance
    ELSE LET tx == Head(txs)
             afterDebit  == IF tx.From = address THEN balance - tx.Amount - tx.Fee ELSE balance
             afterCredit == IF tx.To = address THEN afterDebit + tx.Amount ELSE afterDebit
         IN  IF tx.From = "" /\ tx.To = "Genesis"
             THEN ScanTxs(Tail(txs), address, balance)
             ELSE ScanTxs(Tail(txs), address, afterCredit)

RECURSIVE ScanBlocks(_, _, _)
ScanBlocks(blocks, address, balance) ==
    IF Len(blocks) = 0 THEN balance
    ELSE ScanBlocks(Tail(blocks), address, ScanTxs(Head(blocks).Transactions, address, balance))

GetBalance(blocks, address) == ScanBlocks(blocks, address, 0)

\* "" when the transaction is accepted, else the error
ValidateTransaction(blocks, tx) ==
    IF tx.From = "" THEN ""
    ELSE IF GetBalance(blocks, tx.From) < TotalCost(tx) THEN "insufficient balance"
    ELSE ""

NewBlockRewardTransaction(minerAddress, isGenesis) ==
    NewTransaction("", minerAddress, IF isGenesis THEN InitialBlockReward ELSE BlockReward)

-----------------------------------------------------------------------------
(* The inputs of the chain operations *)

Addresses == {"A", "B", "Genesis"}

\* wallet.go: the private key of the wallet behind an address
KeyOf(address) == "k" \o address

cbA   == NewTransaction("", "A", 50)
tAB50 == Sign(NewTransaction("A", "B", 50), KeyOf("A"))
tABfe == Sign(NewTransactionWithFee("A", "B", 40, 10), KeyOf("A"))
tBA10 == Sign(NewTransaction("B", "A", 10), KeyOf("B"))
\* signed, then the amount rewritten
tBad  == [Sign(NewTransaction("A", "B", 20), KeyOf("A")) EXCEPT !.Amount = 10]

TxUniverse == {cbA, tAB50, tABfe, tBA10, tBad}

\* tAB50 before it is signed: another transaction with the hash of tAB50
tAB50u == NewTransaction("A", "B", 50)

\* What is offered to the mempool
Offered == TxUniverse \cup {tAB50u}

TxLists == SeqsUpTo(TxUniverse, MaxTxPerBlock)

Miners == {"", "Genesis"}

\* time.Now(): the clock may have moved on by a second
Times == {t \in {now, now + 1} : t <= MaxTime}

-----------------------------------------------------------------------------
(* mempool.go *)

\* A mempool that files the transaction under its hash whatever is there
MempoolAddOverwriting(mp, tx) ==
    [h \in DOMAIN mp \cup {TxHash(tx)} |-> IF h = TxHash(tx) THEN tx ELSE mp[h]]

\* What Mempool.AddTransaction returns: the error, or ""
MempoolAddError(mp, tx) ==
    IF TxHash(tx) \in DOMAIN mp THEN "transaction already exists in mempool" ELSE ""

\* The map after Mempool.AddTransaction
MempoolAddTransaction(mp, tx) ==
    LET txHash == TxHash(tx)
    IN  IF txHash \in DOMAIN mp THEN mp
        ELSE [h \in DOMAIN mp \cup {txHash} |-> IF h = txHash THEN tx ELSE mp[h]]

RemoveTransactions(mp, txHashes) == [h \in DOMAIN mp \ txHashes |-> mp[h]]

\* one traversal of the map, cut after maxTransactions
GetTransactionsForBlock(mp, maxTransactions) ==
    {[k \in 1..Len(p) |-> mp[p[k]]] :
        p \in UNION {Orderings(H) :
                 H \in {G \in SUBSET DOMAIN mp :
                            Cardinality(G) = Min(maxTransactions, Cardinality(DOMAIN mp))}}}

TxHashes(txs) == {TxHash(txs[k]) : k \in 1..Len(txs)}

-----------------------------------------------------------------------------
(* blockchain.go *)

\* The validation loop that opens AddBlockWithReward: the first error, or ""
RECURSIVE FirstTxError(_, _)
FirstTxError(blocks, txs) ==
    IF Len(txs) = 0 THEN ""
    ELSE LET tx == Head(txs)
         IN  IF ValidateTransaction(blocks, tx) # "" THEN ValidateTransaction(blocks, tx)
             ELSE IF tx.Signature # "" /\ ~Verify(tx) THEN "transaction has invalid signature"
             ELSE FirstTxError(blocks, Tail(txs))

\* AddTransactionToMempool verifying the signature before it looks at the balance
AdmissionErrorSignatureFirst(blocks, mp, tx) ==
    IF tx.Signature # "" /\ ~Verify(tx) THEN "transaction signature is invalid"
    ELSE IF ValidateTransaction(blocks, tx) # "" THEN ValidateTransaction(blocks, tx)
    ELSE MempoolAddError(mp, tx)

\* What AddTransactionToMempool returns: the first error on its way, or ""
AdmissionError(blocks, mp, tx) ==
    IF ValidateTransaction(blocks, tx) # "" THEN ValidateTransaction(blocks, tx)
    ELSE IF tx.Signature # "" /\ ~Verify(tx) THEN "transaction signature is invalid"
    ELSE MempoolAddError(mp, tx)

AddTransactionToMempool(tx) ==
    /\ LET err == AdmissionError(Blocks, Mempool, tx)
       IN  /\ err = "" => Cardinality(DOMAIN Mempool) < MaxMempool
           /\ Mempool' = IF err = "" THEN MempoolAddTransaction(Mempool, tx) ELSE Mempool
           /\ ret' = [op |-> "AddTransactionToMempool", err |-> err]
    /\ UNCHANGED <<Blocks, now>>

AddBlockWithRewardAs(op, transactions, minerAddress) ==
    /\ LET err == FirstTxError(Blocks, transactions)
           prevBlock == Last(Blocks)
           allTransactions ==
               IF minerAddress # ""
               THEN <<NewBlockRewardTransaction(minerAddress, FALSE)>> \o transactions
               ELSE transactions
       IN  IF err # ""
           THEN /\ ret' = [op |-> op, err |-> err]
                /\ UNCHANGED <<Blocks, Mempool, now>>
           ELSE \E t \in Times :
                /\ Len(Blocks) < MaxBlocks
                /\ Blocks' = Append(Blocks,
                       Mine(NewBlock(prevBlock.Index + 1, t, allTransactions, prevBlock.Hash)))
                /\ Mempool' = RemoveTransactions(Mempool, TxHashes(transactions))
                /\ now' = t
                /\ ret' = [op |-> op, err |-> ""]

\* AddBlockWithReward evicting the transactions before it validates them
AddBlockWithRewardEvictFirst(transactions, minerAddress) ==
    IF FirstTxError(Blocks, transactions) = ""
    THEN AddBlockWithRewardAs("AddBlockWithReward", transactions, minerAddress)
    ELSE /\ Mempool' = RemoveTransactions(Mempool, TxHashes(transactions))
         /\ ret' = [op |-> "AddBlockWithReward", err |-> FirstTxError(Blocks, transactions)]
         /\ UNCHANGED <<Blocks, now>>

AddBlockWithReward(transactions, minerAddress) ==
    AddBlockWithRewardAs("AddBlockWithReward", transactions, minerAddress)

AddBlockFromMempoolWithReward(maxTransactions, minerAddress) ==
    IF DOMAIN Mempool = {}
    THEN /\ ret' = [op |-> "AddBlockFromMempool", err |-> "no transactions in mempool"]
         /\ UNCHANGED <<Blocks, Mempool, now>>
    ELSE \E transactions \in GetTransactionsForBlock(Mempool, maxTransactions) :
            AddBlockWithRewardAs("AddBlockFromMempool", transactions, minerAddress)

AddBlockFromMempool(maxTransactions) == AddBlockFromMempoolWithReward(maxTransactions, "")

-----------------------------------------------------------------------------
(* Chain synchronisation (the second file of smartcontract.go) *)

SignaturesValid(block) ==
    \A k \in 1..Len(block.Transactions) :
        block.Transactions[k].Signature # "" => Verify(block.Transactions[k])

validateBlockchain(blocks) ==
    /\ Len(blocks) # 0
    /\ blocks[1].Index = 0
    /\ blocks[1].PreviousHash = "0"
    /\ \A i \in 1..Len(blocks) :
          /\ blocks[i].MerkleRoot = MerkleRoot(blocks[i].Transactions)
          /\ i > 1 => SignaturesValid(blocks[i])
          /\ blocks[i].Hash = BlockCalculateHash(blocks[i])
          /\ i > 1 => blocks[i].PreviousHash = blocks[i - 1].Hash
          /\ PowValidate(blocks[i])

\* blockchain.go: IsValid on the chain given
IsValid(blocks) ==
    \A i \in 1..Len(blocks) :
        /\ blocks[i].MerkleRoot = MerkleRoot(blocks[i].Transactions)
        /\ i > 1 => SignaturesValid(blocks[i])
        /\ blocks[i].Hash = BlockCalculateHash(blocks[i])
        /\ i > 1 => blocks[i].PreviousHash = blocks[i - 1].Hash
        /\ PowValidate(blocks[i])

\* MergeBlockchain taking the received chain on a tie as well
MergeBlockchainOnTie(receivedBlocks) ==
    /\ LET err == IF Len(receivedBlocks) = 0 THEN "received empty blockchain"
                  ELSE IF ~validateBlockchain(receivedBlocks)
                       THEN "received blockchain is invalid"
                  ELSE ""
       IN  /\ Blocks' = IF err = "" /\ Len(receivedBlocks) >= Len(Blocks)
                        THEN receivedBlocks ELSE Blocks
           /\ ret' = [op |-> "MergeBlockchain", err |-> err]
    /\ UNCHANGED <<Mempool, now>>

MergeBlockchain(receivedBlocks) ==
    /\ LET err == IF Len(receivedBlocks) = 0 THEN "received empty blockchain"
                  ELSE IF ~validateBlockchain(receivedBlocks)
                       THEN "received blockchain is invalid"
                  ELSE ""
       IN  /\ Blocks' = IF err = "" /\ Len(receivedBlocks) > Len(Blocks)
                        THEN receivedBlocks ELSE Blocks
           /\ ret' = [op |-> "MergeBlockchain", err |-> err]
    /\ UNCHANGED <<Mempool, now>>

\* The checks of AddReceivedBlock in their order: the error, or "" when the block is appended.
\* Indexing bc.Blocks with a negative block.Index panics.
ReceivedBlockError(blocks, block) ==
    LET prevBlock == Last(blocks)
    IN  IF block.Index < 0 THEN "panic: index out of range"
        ELSE IF block.Index < Len(blocks) /\ blocks[block.Index + 1].Hash = block.Hash
             THEN "block already exists"
        ELSE IF block.Index # prevBlock.Index + 1 THEN "block index mismatch"
        ELSE IF block.PreviousHash # prevBlock.Hash THEN "previous hash mismatch"
        ELSE IF block.MerkleRoot # MerkleRoot(block.Transactions) THEN "invalid Merkle root"
        ELSE IF ~SignaturesValid(block) THEN "invalid transaction signature"
        ELSE IF block.Hash # BlockCalculateHash(block) THEN "invalid block hash"
        ELSE IF ~PowValidate(block) THEN "invalid proof of work"
        ELSE ""

SpentTxHashes(txs) == {TxHash(txs[k]) : k \in {j \in 1..Len(txs) : txs[j].From # ""}}

AddReceivedBlock(block) ==
    /\ LET err == ReceivedBlockError(Blocks, block)
       IN  /\ err = "" => Len(Blocks) < MaxBlocks
           /\ Blocks' = IF err = "" THEN Append(Blocks, block) ELSE Blocks
           /\ Mempool' = IF err = "" THEN RemoveTransactions(Mempool, SpentTxHashes(block.Transactions))
                         ELSE Mempool
           /\ ret' = [op |-> "AddReceivedBlock", err |-> err]
    /\ UNCHANGED now

-----------------------------------------------------------------------------
(* What a peer may send: chains and blocks it built itself.  A peer numbers  *)
(* and links its blocks as it likes, and mines them or not.                  *)

PeerTxLists == {<<cbA>>, <<tBad>>}

PeerBlocksOn(index, previousHash) ==
    UNION {{Mine(NewBlock(i, 0, txs, previousHash)), Sealed(NewBlock(i, 0, txs, previousHash))} :
              i \in {index, index + 1}, txs \in PeerTxLists}

RECURSIVE PeerChainsOfLen(_)
PeerChainsOfLen(n) ==
    IF n = 1 THEN {<<GenesisBlock(0)>>}
    ELSE UNION {{Append(c, b) : b \in PeerBlocksOn(Last(c).Index + 1, Last(c).Hash)} :
                   c \in PeerChainsOfLen(n - 1)}

PeerChains == {<<>>} \cup UNION {PeerChainsOfLen(n) : n \in 1..MaxPeerLen}

ReceivedBlocks ==
    {Blocks[k] : k \in 1..Len(Blocks)}
        \cup PeerBlocksOn(Last(Blocks).Index + 1, Last(Blocks).Hash)
        \cup PeerBlocksOn(-1, "0")

-----------------------------------------------------------------------------
(* The chain on its own: local admission and synchronisation with peers *)

InitChain ==
    /\ Blocks = <<GenesisBlock(0)>>
    /\ Mempool = <<>>
    /\ now = 0
    /\ ret = [op |-> "NewBlockchain", err |-> ""]

InitIdle ==
    /\ rn = <<>>
    /\ net = {}
    /\ nodeBlocks = <<>>
    /\ pbft = <<>>
    /\ pc = <<>>
    /\ sc = <<>>
    /\ thr = <<>>

Init == InitChain /\ InitIdle

Next ==
    /\ \/ \E tx \in Offered : AddTransactionToMempool(tx)
       \/ \E transactions \in TxLists, minerAddress \in Miners :
             AddBlockWithReward(transactions, minerAddress)
       \/ \E maxTransactions \in 1..MaxTxPerBlock : AddBlockFromMempool(maxTransactions)
       \/ \E maxTransactions \in 1..MaxTxPerBlock, minerAddress \in Miners \ {""} :
             AddBlockFromMempoolWithReward(maxTransactions, minerAddress)
    /\ UNCHANGED <<rn, net, nodeBlocks, pbft, pc, sc, thr>>

Spec == Init /\ [][Next]_vars

-----------------------------------------------------------------------------
(* Claims about the chain on its own *)

ChainPositions(blocks) ==
    {<<i, j>> : i \in 1..Len(blocks), j \in 1..MaxTxPerBlock + 1} \cap
        UNION {{<<i, j>> : j \in 1..Len(blocks[i].Transactions)} : i \in 1..Len(blocks)}

TxAt(blocks, p) == blocks[p[1]].Transactions[p[2]]

RECURSIVE SumAmounts(_, _, _)
SumAmounts(blocks, P, withFee) ==
    IF P = {} THEN 0
    ELSE LET p == CHOOSE q \in P : TRUE
         IN  TxAt(blocks, p).Amount + (IF withFee THEN TxAt(blocks, p).Fee ELSE 0)
                 + SumAmounts(blocks, P \ {p}, withFee)

Received(blocks, a, P) == SumAmounts(blocks, {p \in P : TxAt(blocks, p).To = a}, FALSE)
Spent(blocks, a, P)    == SumAmounts(blocks, {p \in P : TxAt(blocks, p).From = a}, TRUE)

\* C6 (as claimed): admission-time validation keeps every address's balance at or above
\* zero: no sender's chain transactions cost more than the sender received.
C6_NoOverspend == \A a \in Addresses : GetBalance(Blocks, a) >= 0

\* C7 (as claimed): the balance of any address is what the chain's transactions pay it
\* minus what the chain's transactions from it cost, fees included.
C7_BalanceLinearity ==
    \A a \in Addresses :
        GetBalance(Blocks, a) = Received(Blocks, a, ChainPositions(Blocks))
                                  - Spent(Blocks, a, ChainPositions(Blocks))

GenesisForm(tx) == tx.From = "" /\ tx.To = "Genesis"

\* C7 (amended): the same sum, taken over the chain's transactions other than those with
\* an empty sender and the receiver "Genesis", which the scan skips in every block.
C7_BalanceLinearitySkippingGenesis ==
    LET P == {p \in ChainPositions(Blocks) : ~GenesisForm(TxAt(Blocks, p))}
    IN  \A a \in Addresses :
            GetBalance(Blocks, a) = Received(Blocks, a, P) - Spent(Blocks, a, P)

\* A chain that pays a reward to "Genesis" and on which A has spent, with a fee
C7_Witness ==
    /\ \E p \in ChainPositions(Blocks) :
          GenesisForm(TxAt(Blocks, p)) /\ TxAt(Blocks, p).Amount > 0
    /\ \E p \in ChainPositions(Blocks) : TxAt(Blocks, p) = tABfe
    /\ GetBalance(Blocks, "B") > 0

\* C9: a successful AddBlockWithReward appends exactly one block, numbered one above the
\* old tail, and leaves the earlier blocks alone; a failing one leaves chain and mempool
\* as they were.
C9_AddBlockFrame ==
    [][ret'.op = "AddBlockWithReward" =>
          IF ret'.err = ""
          THEN /\ Len(Blocks') = Len(Blocks) + 1
               /\ Last(Blocks').Index = Last(Blocks).Index + 1
               /\ SubSeq(Blocks', 1, Len(Blocks)) = Blocks
          ELSE Blocks' = Blocks /\ Mempool' = Mempool]_vars

\* A failed AddBlockWithReward on a grown chain, with transactions pending
C9_Witness ==
    /\ ret.op = "AddBlockWithReward"
    /\ ret.err # ""
    /\ Len(Blocks) > 1
    /\ DOMAIN Mempool # {}

\* C16: adding a transaction whose hash the mempool holds returns the duplicate error and
\* leaves the mempool, size and contents, as it was; and after any adds and removals every
\* transaction of the mempool is filed under its own hash, one per hash.
C16_MempoolIdempotent ==
    /\ [](\A tx \in Offered :
             TxHash(tx) \in DOMAIN Mempool =>
                 /\ MempoolAddError(Mempool, tx) = "transaction already exists in mempool"
                 /\ MempoolAddTransaction(Mempool, tx) = Mempool)
    /\ [](\A h \in DOMAIN Mempool : TxHash(Mempool[h]) = h)
    /\ [][ret'.op = "AddTransactionToMempool"
              /\ ret'.err = "transaction already exists in mempool" => Mempool' = Mempool]_vars

\* The mempool holds tAB50 after a block took transactions out of it, and a second add of
\* a transaction was refused as a duplicate
C16_Witness ==
    /\ ret = [op |-> "AddTransactionToMempool", err |-> "transaction already exists in mempool"]
    /\ TxHash(tAB50u) \in DOMAIN Mempool
    /\ Len(Blocks) = MaxBlocks

\* The sender is named and the chain gives it less than the amount and the fee
CannotPay(blocks, tx) == tx.From # "" /\ GetBalance(blocks, tx.From) < tx.Amount + tx.Fee

\* The transaction carries a signature that does not verify
BadlySigned(tx) == tx.Signature # "" /\ ~Verify(tx)

\* An AddTransactionToMempool that returned one of the two errors changed nothing
RefusalChangesNothing ==
    ret'.op = "AddTransactionToMempool"
        /\ ret'.err \in {"insufficient balance", "transaction signature is invalid"}
            => Mempool' = Mempool /\ Blocks' = Blocks

\* C17 (as claimed): AddTransactionToMempool returns the balance error for every
\* transaction whose sender cannot pay and the signature error for every signed
\* transaction that does not verify, and in both cases leaves mempool and chain alone.
C17_AdmissionErrors ==
    /\ [](\A tx \in Offered :
             /\ CannotPay(Blocks, tx) =>
                    AdmissionError(Blocks, Mempool, tx) = "insufficient balance"
             /\ BadlySigned(tx) =>
                    AdmissionError(Blocks, Mempool, tx) = "transaction signature is invalid")
    /\ [][RefusalChangesNothing]_vars

\* C17 (amended): the balance error for every transaction whose sender cannot pay; the
\* signature error for every signed transaction that does not verify and whose sender
\* can pay (or is empty); in both cases mempool and chain are left alone.
C17_AdmissionErrorsBalanceFirst ==
    /\ [](\A tx \in Offered :
             /\ CannotPay(Blocks, tx) =>
                    AdmissionError(Blocks, Mempool, tx) = "insufficient balance"
             /\ BadlySigned(tx) /\ ~CannotPay(Blocks, tx) =>
                    AdmissionError(Blocks, Mempool, tx) = "transaction signature is invalid")
    /\ [][RefusalChangesNothing]_vars

\* A badly signed transaction of a sender that can pay was refused, with transactions
\* pending
C17_Witness ==
    /\ ret = [op |-> "AddTransactionToMempool", err |-> "transaction signature is invalid"]
    /\ DOMAIN Mempool # {}
    /\ ~CannotPay(Blocks, tBad)

\* The chain of a node that also listens to its peers
NextSync ==
    /\ \/ \E tx \in {tAB50, tBad} : AddTransactionToMempool(tx)
       \/ \E transactions \in PeerTxLists : AddBlockWithReward(transactions, "")
       \/ \E receivedBlocks \in PeerChains : MergeBlockchain(receivedBlocks)
       \/ \E block \in ReceivedBlocks : AddReceivedBlock(block)
    /\ UNCHANGED <<rn, net, nodeBlocks, pbft, pc, sc, thr>>

SpecSync == Init /\ [][NextSync]_vars

-----------------------------------------------------------------------------
(* Claims about synchronisation *)

\* C8 (as claimed): block 0 has index 0 and previous hash "0", and every later block is
\* numbered one above its predecessor, also after a merge.
C8_IndexChain ==
    /\ Blocks[1].Index = 0
    /\ Blocks[1].PreviousHash = "0"
    /\ \A i \in 2..Len(Blocks) : Blocks[i].Index = Blocks[i - 1].Index + 1

\* A transfer out of A signed with the key of B's wallet, B's public key attached
tABbyB == Sign(NewTransaction("A", "B", 50), KeyOf("B"))

AuthorityTxLists == {<<cbA>>, <<tAB50>>, <<tAB50u>>, <<tABbyB>>, <<tBad>>}

\* Blocks built on the tail of the chain by the node itself and by peers, from
\* transactions signed by the sender, by somebody else, or by nobody
NextAuthority ==
    /\ \/ \E transactions \in AuthorityTxLists, minerAddress \in Miners :
             AddBlockWithReward(transactions, minerAddress)
       \/ \E transactions \in AuthorityTxLists :
             AddReceivedBlock(Mine(NewBlock(Last(Blocks).Index + 1, 0, transactions, Last(Blocks).Hash)))
    /\ UNCHANGED <<rn, net, nodeBlocks, pbft, pc, sc, thr>>

SpecAuthority == Init /\ [][NextAuthority]_vars

\* C28 (as claimed): every transaction with a non-empty sender in a block of the chain
\* carries a signature that verifies under the public key of the sender's wallet.
C28_SignatureAuthority ==
    \A i \in 1..Len(Blocks) : \A k \in 1..Len(Blocks[i].Transactions) :
        LET tx == Blocks[i].Transactions[k]
        IN  tx.From # "" => Verify(tx) /\ tx.PublicKey = KeyOf(tx.From)

\* C11: MergeBlockchain never shortens the local chain: when it changes the chain it returns
\* no error and the new chain is a non-empty sequence that passes validateBlockchain and is
\* strictly longer than the old one; in every other case the chain is exactly as it was.
C11_MergeMonotone ==
    [][ret'.op = "MergeBlockchain" =>
          /\ Len(Blocks') >= Len(Blocks)
          /\ \/ Blocks' = Blocks
             \/ /\ ret'.err = ""
                /\ Len(Blocks') > 0
                /\ validateBlockchain(Blocks')
                /\ Len(Blocks') > Len(Blocks)
          /\ ret'.err # "" => Blocks' = Blocks]_vars

\* A merge has replaced the chain by a peer's longer one (only a peer skips an index), and
\* the last merge, of a chain no longer than that, was refused or ignored
C11_Witness ==
    /\ ret.op = "MergeBlockchain"
    /\ ret.err # ""
    /\ Len(Blocks) = MaxPeerLen
    /\ Blocks[2].Index = 2

\* The six conditions under which a received block is to be appended to a chain
Acceptable(blocks, block) ==
    /\ block.Index = Last(blocks).Index + 1
    /\ block.PreviousHash = Last(blocks).Hash
    /\ block.MerkleRoot = MerkleRoot(block.Transactions)
    /\ SignaturesValid(block)
    /\ block.Hash = BlockCalculateHash(block)
    /\ PowValidate(block)

\* C12 (as claimed): AddReceivedBlock appends the block iff the six conditions hold: every
\* block of that kind is accepted, an appended block is of that kind, and for every other
\* block, a negative index included, the call returns an error (it does not panic) and
\* leaves chain and mempool as they were.
C12_ReceivedBlockContract ==
    /\ [](\A block \in ReceivedBlocks :
             Acceptable(Blocks, block) <=> ReceivedBlockError(Blocks, block) = "")
    /\ [][ret'.op = "AddReceivedBlock" =>
             IF ret'.err = ""
             THEN Blocks' = Append(Blocks, Last(Blocks')) /\ Acceptable(Blocks, Last(Blocks'))
             ELSE /\ ret'.err # "panic: index out of range"
                  /\ Blocks' = Blocks
                  /\ Mempool' = Mempool]_vars

-----------------------------------------------------------------------------
(* raft.go: the Raft node *)

RaftFollower  == "follower"
RaftCandidate == "candidate"
RaftLeader    == "leader"

RaftRequestVote       == "request_vote"
RaftRequestVoteResp   == "request_vote_response"
RaftAppendEntries     == "append_entries"
RaftAppendEntriesResp == "append_entries_response"

\* The cluster: every node is created with the same peer list, itself included
Peers == <<"n1", "n2", "n3">>
Nodes == {Peers[i] : i \in 1..Len(Peers)}

PeerIndex(p) == CHOOSE i \in 1..Len(Peers) : Peers[i] = p

\* NewRaftNode(nodeID, peers, bc), without the identity and the chain
NewRaftNodeOf(peers) ==
    [State |-> RaftFollower, CurrentTerm |-> 0, VotedFor |-> "", VotesReceived |-> 0,
     Log |-> <<>>, CommitIndex |-> 0, LastApplied |-> 0, LeaderID |-> "",
     NextIndex |-> [i \in 1..Len(peers) |-> 1], MatchIndex |-> [i \in 1..Len(peers) |-> 0]]

NewRaftNode == NewRaftNodeOf(Peers)

\* A RaftMessage with its zero values; To is the peer the caller hands the message to
RaftMessage(type, term, nodeID, to) ==
    [Type |-> type, Term |-> term, NodeID |-> nodeID, To |-> to,
     LastLogIndex |-> 0, LastLogTerm |-> 0, VoteGranted |-> FALSE,
     PrevLogIndex |-> 0, PrevLogTerm |-> 0, Entries |-> <<>>, LeaderCommit |-> 0,
     Success |-> FALSE]

LastLogTermOf(log) == IF Len(log) > 0 THEN Last(log).Term ELSE 0

\* Stepping down on a higher term, as every Process* handler starts
StepDown(r, term) ==
    IF term > r.CurrentTerm
    THEN [r EXCEPT !.CurrentTerm = term, !.State = RaftFollower, !.VotedFor = ""]
    ELSE r

HasBlock(blocks, hash) == \E k \in 1..Len(blocks) : blocks[k].Hash = hash

\* The pair of a node and its chain after applyCommittedEntries
RECURSIVE applyCommittedEntries(_, _)
applyCommittedEntries(r, blocks) ==
    IF r.LastApplied < r.CommitIndex
    THEN LET entry == r.Log[r.LastApplied + 1]
         IN  applyCommittedEntries([r EXCEPT !.LastApplied = @ + 1],
                                   IF HasBlock(blocks, entry.Command.Hash) THEN blocks
                                   ELSE Append(blocks, entry.Command))
    ELSE <<r, blocks>>

\* The loop of updateCommitIndex from index n on, in a cluster of peers
RECURSIVE CommitFromOf(_, _, _, _)
CommitFromOf(r, blocks, n, peers) ==
    IF n > Len(r.Log) THEN <<r, blocks>>
    ELSE LET count == Cardinality({i \in 1..Len(peers) : r.MatchIndex[i] >= n})
         IN  IF count > Len(peers) \div 2 /\ r.Log[n].Term = r.CurrentTerm
             THEN LET applied == applyCommittedEntries([r EXCEPT !.CommitIndex = n], blocks)
                  IN  CommitFromOf(applied[1], applied[2], n + 1, peers)
             ELSE CommitFromOf(r, blocks, n + 1, peers)

CommitFrom(r, blocks, n) == CommitFromOf(r, blocks, n, Peers)

updateCommitIndexOf(r, blocks, peers) == CommitFromOf(r, blocks, r.CommitIndex + 1, peers)

updateCommitIndex(r, blocks) == updateCommitIndexOf(r, blocks, Peers)

BecomeLeaderOf(r, id, peers) ==
    [r EXCEPT !.State = RaftLeader, !.LeaderID = id,
              !.NextIndex = [i \in 1..Len(peers) |-> Len(r.Log) + 1],
              !.MatchIndex = [i \in 1..Len(peers) |-> 0]]

BecomeLeader(r, id) == BecomeLeaderOf(r, id, Peers)

\* The node after RequestVote
StandAsCandidate(r, id) ==
    [r EXCEPT !.State = RaftCandidate, !.CurrentTerm = @ + 1, !.VotedFor = id, !.VotesReceived = 1]

\* RequestVote, and the caller handing the message to every other peer
RequestVote(n) ==
    /\ rn[n].CurrentTerm < MaxTerm
    /\ LET r   == StandAsCandidate(rn[n], n)
           msg == [RaftMessage(RaftRequestVote, r.CurrentTerm, n, n) EXCEPT
                       !.LastLogIndex = Len(r.Log), !.LastLogTerm = LastLogTermOf(r.Log)]
       IN  /\ rn' = [rn EXCEPT ![n] = r]
           /\ net' = net \cup {[msg EXCEPT !.To = p] : p \in Nodes \ {n}}
    /\ Cardinality(net') <= MaxInFlight
    /\ UNCHANGED nodeBlocks

\* A voter that has no memory of its vote
VoteFreeAlways(r, msg) == TRUE

\* The voter may still give its vote in its term to the sender of msg
VoteFree(r, msg) == r.VotedFor = "" \/ r.VotedFor = msg.NodeID

\* A voter that does not compare logs
LogUpToDateAlways(r, msg) == TRUE

LogUpToDate(r, msg) ==
    \/ msg.LastLogTerm > LastLogTermOf(r.Log)
    \/ msg.LastLogTerm = LastLogTermOf(r.Log) /\ msg.LastLogIndex >= Len(r.Log)

ProcessRequestVote(n, msg) ==
    /\ msg \in net /\ msg.To = n /\ msg.Type = RaftRequestVote
    /\ LET r0 == StepDown(rn[n], msg.Term)
           voteGranted == msg.Term = r0.CurrentTerm /\ VoteFree(r0, msg) /\ LogUpToDate(r0, msg)
           r  == IF voteGranted THEN [r0 EXCEPT !.VotedFor = msg.NodeID] ELSE r0
           resp == [RaftMessage(RaftRequestVoteResp, r.CurrentTerm, n, msg.NodeID) EXCEPT
                        !.VoteGranted = voteGranted]
       IN  /\ rn' = [rn EXCEPT ![n] = r]
           /\ net' = (net \ {msg}) \cup {resp}
    /\ UNCHANGED nodeBlocks

\* The node id of a cluster of peers after ProcessRequestVoteResponse(msg)
CountVote(r, msg, id, peers) ==
    LET one == [r EXCEPT !.VotesReceived = @ + 1]
    IN  IF msg.Term < r.CurrentTerm THEN r
        ELSE IF msg.Term > r.CurrentTerm THEN StepDown(r, msg.Term)
        ELSE IF r.State = RaftCandidate /\ msg.VoteGranted
             THEN IF one.VotesReceived > Len(peers) \div 2
                  THEN BecomeLeaderOf(one, id, peers) ELSE one
        ELSE r

ProcessRequestVoteResponse(n, msg) ==
    /\ msg \in net /\ msg.To = n /\ msg.Type = RaftRequestVoteResp
    /\ rn' = [rn EXCEPT ![n] = CountVote(rn[n], msg, n, Peers)]
    /\ net' = net \ {msg}
    /\ UNCHANGED nodeBlocks

\* AppendEntries for one peer, called as a leader that replicates its own log calls it:
\* the entries after prevLogIndex, or none, and its own commit index
AppendEntries(n, p, prevLogIndex, withEntries) ==
    /\ rn[n].State = RaftLeader
    /\ p # n
    /\ LET r   == rn[n]
           msg == [RaftMessage(RaftAppendEntries, r.CurrentTerm, n, p) EXCEPT
                       !.PrevLogIndex = prevLogIndex,
                       !.PrevLogTerm = IF prevLogIndex > 0 THEN r.Log[prevLogIndex].Term ELSE 0,
                       !.Entries = IF withEntries THEN SubSeq(r.Log, prevLogIndex + 1, Len(r.Log))
                                   ELSE <<>>,
                       !.LeaderCommit = r.CommitIndex]
       IN  /\ msg \notin net
           /\ net' = net \cup {msg}
    /\ Cardinality(net') <= MaxInFlight
    /\ UNCHANGED <<rn, nodeBlocks>>

\* The follower's log after the loop over msg.Entries, from the i-th entry on
RECURSIVE AppendFrom(_, _, _)
AppendFrom(log, msg, i) ==
    IF i > Len(msg.Entries) THEN log
    ELSE LET logIndex == msg.PrevLogIndex + i
             entry    == msg.Entries[i]
         IN  IF logIndex <= Len(log)
             THEN IF log[logIndex].Term # entry.Term
                  THEN AppendFrom(Append(SubSeq(log, 1, logIndex - 1), entry), msg, i + 1)
                  ELSE AppendFrom(log, msg, i + 1)
             ELSE AppendFrom(Append(log, entry), msg, i + 1)

\* A follower that takes the entries whatever its log holds before them
LogConsistentAlways(r, msg) == TRUE

\* The follower's log holds the entry the message names as the one before its entries
LogConsistent(r, msg) ==
    \/ msg.PrevLogIndex = 0
    \/ /\ msg.PrevLogIndex <= Len(r.Log)
       /\ r.Log[msg.PrevLogIndex].Term = msg.PrevLogTerm

\* A node that takes entries from the leader of any term
FromAnyTerm(r, msg) == TRUE

\* The message is of the node's term, after the node has stepped down on a higher one
FromCurrentTerm(r, msg) == msg.Term = r.CurrentTerm

ProcessAppendEntries(n, msg) ==
    /\ msg \in net /\ msg.To = n /\ msg.Type = RaftAppendEntries
    /\ LET r0 == StepDown(rn[n], msg.Term)
           r1 == IF msg.Term = r0.CurrentTerm THEN [r0 EXCEPT !.LeaderID = msg.NodeID] ELSE r0
           success == FromCurrentTerm(r1, msg) /\ LogConsistent(r1, msg)
           r2 == [r1 EXCEPT !.Log = AppendFrom(r1.Log, msg, 1)]
           r3 == [r2 EXCEPT !.CommitIndex = Min(msg.LeaderCommit, Len(r2.Log))]
           applied == IF ~success THEN <<r1, nodeBlocks[n]>>
                      ELSE IF msg.LeaderCommit > r2.CommitIndex
                           THEN applyCommittedEntries(r3, nodeBlocks[n])
                      ELSE <<r2, nodeBlocks[n]>>
           resp == [RaftMessage(RaftAppendEntriesResp, r1.CurrentTerm, n, msg.NodeID) EXCEPT
                        !.Success = success]
       IN  /\ rn' = [rn EXCEPT ![n] = applied[1]]
           /\ nodeBlocks' = [nodeBlocks EXCEPT ![n] = applied[2]]
           /\ net' = (net \ {msg}) \cup {resp}

\* The pair of a node and its chain after ProcessAppendEntriesResponse(msg, peerIndex)
AppendEntriesResponseOf(r, blocks, msg, peerIndex, peers) ==
    IF msg.Term > r.CurrentTerm THEN <<StepDown(r, msg.Term), blocks>>
    ELSE IF r.State = RaftLeader /\ msg.Term = r.CurrentTerm
         THEN IF msg.Success
              THEN updateCommitIndexOf(
                       [r EXCEPT !.MatchIndex[peerIndex] = r.NextIndex[peerIndex] - 1,
                                 !.NextIndex[peerIndex] = @ + 1], blocks, peers)
              ELSE <<[r EXCEPT !.NextIndex[peerIndex] = IF @ > 1 THEN @ - 1 ELSE @], blocks>>
    ELSE <<r, blocks>>

AppendEntriesResponse(r, blocks, msg, peerIndex) ==
    AppendEntriesResponseOf(r, blocks, msg, peerIndex, Peers)

\* A success moves NextIndex up: the model stops counting MaxAhead past the next free index
CountsUp(r, msg, peerIndex) ==
    r.State = RaftLeader /\ msg.Term = r.CurrentTerm /\ msg.Success
        => r.NextIndex[peerIndex] <= Len(r.Log) + MaxAhead

ProcessAppendEntriesResponse(n, msg) ==
    /\ msg \in net /\ msg.To = n /\ msg.Type = RaftAppendEntriesResp
    /\ CountsUp(rn[n], msg, PeerIndex(msg.NodeID))
    /\ LET after == AppendEntriesResponse(rn[n], nodeBlocks[n], msg, PeerIndex(msg.NodeID))
       IN  /\ rn' = [rn EXCEPT ![n] = after[1]]
           /\ nodeBlocks' = [nodeBlocks EXCEPT ![n] = after[2]]
    /\ net' = net \ {msg}

\* The responses ReplicateLog and SendHeartbeat make up for the peers from the i-th on,
\* each processed as if the peer had sent it
RECURSIVE AssumeSuccessOf(_, _, _, _, _)
AssumeSuccessOf(n, r, blocks, i, peers) ==
    IF i > Len(peers) THEN <<r, blocks>>
    ELSE IF peers[i] = n \/ r.State # RaftLeader THEN AssumeSuccessOf(n, r, blocks, i + 1, peers)
    ELSE LET resp  == [RaftMessage(RaftAppendEntriesResp, r.CurrentTerm, peers[i], n) EXCEPT
                           !.Success = TRUE]
             after == AppendEntriesResponseOf(r, blocks, resp, i, peers)
         IN  AssumeSuccessOf(n, after[1], after[2], i + 1, peers)

AssumeSuccess(n, r, blocks, i) == AssumeSuccessOf(n, r, blocks, i, Peers)

RoomToCount(n) ==
    \A i \in 1..Len(Peers) : Peers[i] # n => rn[n].NextIndex[i] <= Len(rn[n].Log) + MaxAhead

\* ReplicateLog: the AppendEntries messages it builds are dropped, the answers assumed
ReplicateLog(n, block) ==
    /\ rn[n].State = RaftLeader
    /\ Len(rn[n].Log) < MaxLog
    /\ RoomToCount(n)
    /\ LET entry == [Index |-> Len(rn[n].Log) + 1, Term |-> rn[n].CurrentTerm, Command |-> block]
           after == AssumeSuccess(n, [rn[n] EXCEPT !.Log = Append(@, entry)], nodeBlocks[n], 1)
       IN  /\ rn' = [rn EXCEPT ![n] = after[1]]
           /\ nodeBlocks' = [nodeBlocks EXCEPT ![n] = after[2]]
    /\ UNCHANGED net

SendHeartbeat(n) ==
    /\ rn[n].State = RaftLeader
    /\ RoomToCount(n)
    /\ LET after == AssumeSuccess(n, rn[n], nodeBlocks[n], 1)
       IN  /\ rn' = [rn EXCEPT ![n] = after[1]]
           /\ nodeBlocks' = [nodeBlocks EXCEPT ![n] = after[2]]
    /\ UNCHANGED net

\* The blocks a leader proposes: built on the tail of its chain and sealed without mining,
\* as CreateBlockWithRaft builds them
ProposedBlocks(n) ==
    {Sealed(NewBlock(Last(nodeBlocks[n]).Index + 1, 0, txs, Last(nodeBlocks[n]).Hash)) :
        txs \in {<<cbA>>, <<cbA, cbA>>}}

InitRaft ==
    /\ InitChain
    /\ rn = [n \in Nodes |-> NewRaftNode]
    /\ net = {}
    /\ nodeBlocks = [n \in Nodes |-> <<GenesisBlock(0)>>]
    /\ pbft = <<>>
    /\ pc = <<>>
    /\ sc = <<>>
    /\ thr = <<>>

\* A cluster whose nodes exchange the messages they build
NextRaft ==
    /\ \/ \E n \in Nodes : RequestVote(n)
       \/ \E n \in Nodes, msg \in net : ProcessRequestVote(n, msg)
       \/ \E n \in Nodes, msg \in net : ProcessRequestVoteResponse(n, msg)
       \/ \E n \in Nodes, p \in Nodes : \E prevLogIndex \in 0..Len(rn[n].Log), withEntries \in BOOLEAN :
              AppendEntries(n, p, prevLogIndex, withEntries)
       \/ \E n \in Nodes, msg \in net : ProcessAppendEntries(n, msg)
       \/ \E n \in Nodes, msg \in net : ProcessAppendEntriesResponse(n, msg)
    /\ UNCHANGED <<Blocks, Mempool, now, ret, pbft, pc, sc, thr>>

SpecRaft == InitRaft /\ [][NextRaft]_vars

NextRaftLog ==
    /\ \/ \E n \in Nodes : RequestVote(n)
       \/ \E n \in Nodes, msg \in net : ProcessRequestVote(n, msg)
       \/ \E n \in Nodes, msg \in net : ProcessRequestVoteResponse(n, msg)
       \/ \E n \in Nodes : \E block \in ProposedBlocks(n) : ReplicateLog(n, block)
       \/ \E n \in Nodes : SendHeartbeat(n)
    /\ UNCHANGED <<Blocks, Mempool, now, ret, pbft, pc, sc, thr>>

SpecRaftLog == InitRaft /\ [][NextRaftLog]_vars

WellFormed(blocks) ==
    \A i \in 2..Len(blocks) :
        /\ blocks[i].PreviousHash = blocks[i - 1].Hash
        /\ blocks[i].Hash = BlockCalculateHash(blocks[i])
        /\ blocks[i].MerkleRoot = MerkleRoot(blocks[i].Transactions)

\* C1 (as claimed): in every chain, every block after the first carries the hash of the
\* block before it, its own canonical hash and the Merkle root of its transactions.
C1_ChainWellFormed == WellFormed(Blocks) /\ \A n \in DOMAIN nodeBlocks : WellFormed(nodeBlocks[n])

\* C3 (as claimed): what a leader has committed is in the log, at the same index, of every
\* leader of a later term.
C3_LeaderCompleteness ==
    \A a, b \in Nodes :
        rn[a].State = RaftLeader /\ rn[b].State = RaftLeader
            /\ rn[b].CurrentTerm > rn[a].CurrentTerm =>
                \A i \in 1..rn[a].CommitIndex :
                    Len(rn[b].Log) >= i /\ rn[b].Log[i] = rn[a].Log[i]

\* C22 (as claimed): two nodes that have each applied the entry at a log index to their
\* chains have applied the same block there (the leader that committed it and a follower,
\* or any two nodes).
C22_StateMachineSafety ==
    \A a, b \in Nodes :
        \A i \in 1..Min(rn[a].LastApplied, rn[b].LastApplied) :
            /\ rn[a].Log[i].Command = rn[b].Log[i].Command
            /\ HasBlock(nodeBlocks[a], rn[a].Log[i].Command.Hash)
            /\ HasBlock(nodeBlocks[b], rn[a].Log[i].Command.Hash)

\* The log of node p holds, at index n, the entry the log of node a holds there
Holds(p, a, n) == Len(rn[p].Log) >= n /\ rn[p].Log[n] = rn[a].Log[n]

\* C23 (as claimed): every entry up to the commit index of a leader is stored, at its
\* index, in the logs of more than half of the nodes, and a peer whose MatchIndex on the
\* leader has reached an index holds the leader's entry at that index.
C23_CommittedOnMajority ==
    \A a \in Nodes : rn[a].State = RaftLeader =>
        /\ \A n \in 1..rn[a].CommitIndex :
              Cardinality({p \in Nodes : Holds(p, a, n)}) > Len(Peers) \div 2
        /\ \A i \in 1..Len(Peers) : \A n \in 1..Min(rn[a].MatchIndex[i], Len(rn[a].Log)) :
              Holds(Peers[i], a, n)

\* A cluster of five seen from one of its nodes: the node stands for election and is
\* handed vote responses, each of them any number of times; net keeps what it was handed
VotePeers == <<"n1", "n2", "n3", "n4", "n5">>
Voter == "n1"

VoteResponses ==
    {[RaftMessage(RaftRequestVoteResp, term, nodeID, Voter) EXCEPT !.VoteGranted = voteGranted] :
        term \in 1..MaxTerm, nodeID \in {"n2", "n3"}, voteGranted \in BOOLEAN}

InitRaftVote ==
    /\ InitChain
    /\ rn = [n \in {Voter} |-> NewRaftNodeOf(VotePeers)]
    /\ net = {}
    /\ nodeBlocks = [n \in {Voter} |-> <<GenesisBlock(0)>>]
    /\ pbft = <<>>
    /\ pc = <<>>
    /\ sc = <<>>
    /\ thr = <<>>

LocalRequestVote ==
    /\ rn[Voter].CurrentTerm < MaxTerm
    /\ rn' = [rn EXCEPT ![Voter] = StandAsCandidate(rn[Voter], Voter)]
    /\ UNCHANGED <<net, nodeBlocks>>

ReceiveVote(msg) ==
    /\ rn' = [rn EXCEPT ![Voter] = CountVote(rn[Voter], msg, Voter, VotePeers)]
    /\ net' = net \cup {msg}
    /\ UNCHANGED nodeBlocks

NextRaftVote ==
    /\ \/ LocalRequestVote
       \/ \E msg \in VoteResponses : ReceiveVote(msg)
    /\ UNCHANGED <<Blocks, Mempool, now, ret, pbft, pc, sc, thr>>

SpecRaftVote == InitRaftVote /\ [][NextRaftVote]_vars

\* The nodes whose granted votes for the node's current term the node holds, itself included
Granters == {Voter} \cup {msg.NodeID : msg \in {m \in net : m.Term = rn[Voter].CurrentTerm /\ m.VoteGranted}}

\* C24 (as claimed): a node is leader only with granted votes for its current term from
\* more than half of the nodes of the cluster, itself included, each node counted once.
C24_LeaderByMajority ==
    rn[Voter].State = RaftLeader => Cardinality(Granters) > Len(VotePeers) \div 2

\* C25: a node that has voted in a term keeps that vote as long as it is in that term, and
\* ProcessRequestVote answers with a granted vote only to a request whose term is not
\* behind the node's term, when the node had not voted in the request's term or had voted
\* for the same candidate, and when the candidate's last log term and index are at least
\* the node's own; the vote it then holds is for that candidate.
C25_OneVotePerTerm ==
    /\ [][\A n \in Nodes :
             rn'[n].CurrentTerm = rn[n].CurrentTerm /\ rn[n].VotedFor # ""
                 => rn'[n].VotedFor = rn[n].VotedFor]_vars
    /\ [][\A resp \in net' \ net :
             resp.Type = RaftRequestVoteResp /\ resp.VoteGranted =>
                 \E msg \in net \ net' :
                     LET r == rn[resp.NodeID]
                     IN  /\ msg.Type = RaftRequestVote /\ msg.To = resp.NodeID /\ msg.NodeID = resp.To
                         /\ msg.Term >= r.CurrentTerm
                         /\ msg.Term > r.CurrentTerm \/ r.VotedFor \in {"", msg.NodeID}
                         /\ \/ msg.LastLogTerm > LastLogTermOf(r.Log)
                            \/ msg.LastLogTerm = LastLogTermOf(r.Log) /\ msg.LastLogIndex >= Len(r.Log)
                         /\ rn'[resp.NodeID].VotedFor = msg.NodeID
                         /\ rn'[resp.NodeID].CurrentTerm = msg.Term]_vars

\* A former leader with an entry in its log has refused its vote to a candidate of a later
\* term whose log is empty, and a node of that term has given the candidate its vote
C25_Witness ==
    \E a, b, c \in Nodes :
        /\ Len(rn[a].Log) > 0 /\ rn[a].State = RaftFollower /\ rn[a].VotedFor = ""
        /\ rn[b].State = RaftCandidate /\ rn[b].CurrentTerm = rn[a].CurrentTerm /\ Len(rn[b].Log) = 0
        /\ rn[c].VotedFor = b /\ rn[c].CurrentTerm = rn[b].CurrentTerm /\ c # b
        /\ \E resp \in net : resp.Type = RaftRequestVoteResp /\ resp.NodeID = a /\ ~resp.VoteGranted

\* The response ProcessAppendEntries returns goes to its caller, which may drop it, as
\* ReplicateLog drops the message AppendEntries returns
DiscardResponse(msg) ==
    /\ msg \in net /\ msg.Type = RaftAppendEntriesResp
    /\ net' = net \ {msg}
    /\ UNCHANGED <<rn, nodeBlocks>>

\* The nodes whose election timers fire in the replicating cluster
Candidates == {"n1", "n2"}

\* A cluster whose leaders take blocks into their logs and send their followers the
\* entries, and whose followers process what arrives, in any order
NextRaftRepl ==
    /\ \/ \E n \in Candidates : RequestVote(n)
       \/ \E n \in Nodes, msg \in net : ProcessRequestVote(n, msg)
       \/ \E n \in Nodes, msg \in net : ProcessRequestVoteResponse(n, msg)
       \/ \E n \in Nodes : \E block \in {b \in ProposedBlocks(n) : Len(b.Transactions) = 1} :
              ReplicateLog(n, block)
       \/ \E n \in Nodes, p \in Nodes : \E prevLogIndex \in 0..Len(rn[n].Log) :
              AppendEntries(n, p, prevLogIndex, TRUE)
       \/ \E n \in Nodes, msg \in net : ProcessAppendEntries(n, msg)
       \/ \E msg \in net : DiscardResponse(msg)
    /\ Cardinality(net') <= MaxReplInFlight
    /\ UNCHANGED <<Blocks, Mempool, now, ret, pbft, pc, sc, thr>>

SpecRaftRepl == InitRaft /\ [][NextRaftRepl]_vars

\* The replicating cluster with heartbeats: leaders take blocks into their logs, count
\* the answers ReplicateLog and SendHeartbeat assume, and send n1 and n2 their whole logs
NextRaftApply ==
    /\ \/ \E n \in Candidates : RequestVote(n)
       \/ \E n \in Nodes, msg \in net : ProcessRequestVote(n, msg)
       \/ \E n \in Nodes, msg \in net : ProcessRequestVoteResponse(n, msg)
       \/ \E n \in Nodes : \E block \in {b \in ProposedBlocks(n) : Len(b.Transactions) = 1} :
              ReplicateLog(n, block)
       \/ \E n \in Nodes : SendHeartbeat(n)
       \/ \E n \in Nodes, p \in Candidates : AppendEntries(n, p, 0, TRUE)
       \/ \E n \in Nodes, msg \in net : ProcessAppendEntries(n, msg)
       \/ \E msg \in net : DiscardResponse(msg)
    /\ Cardinality(net') <= MaxReplInFlight
    /\ UNCHANGED <<Blocks, Mempool, now, ret, pbft, pc, sc, thr>>

SpecRaftApply == InitRaft /\ [][NextRaftApply]_vars

\* C32 (as claimed): on every node last_applied <= commit_index <= length of the log at
\* all times, neither last_applied nor commit_index ever decreases, and what a step adds
\* to the node's chain are blocks of the log entries from the old last_applied + 1 up to
\* the new last_applied, in that order.
C32_AppliedInOrder ==
    /\ [](\A n \in Nodes :
             rn[n].LastApplied <= rn[n].CommitIndex /\ rn[n].CommitIndex <= Len(rn[n].Log))
    /\ [][\A n \in Nodes :
             /\ rn'[n].LastApplied >= rn[n].LastApplied
             /\ rn'[n].CommitIndex >= rn[n].CommitIndex
             /\ applyCommittedEntries([rn'[n] EXCEPT !.LastApplied = rn[n].LastApplied],
                                      nodeBlocks[n])[2] = nodeBlocks'[n]]_vars

NextRaftCommit ==
    /\ \/ RequestVote(Voter)
       \/ \E n \in Nodes, msg \in net : ProcessRequestVote(n, msg)
       \/ \E n \in Nodes, msg \in net : ProcessRequestVoteResponse(n, msg)
       \/ \E n \in Nodes : \E block \in {b \in ProposedBlocks(n) : Len(b.Transactions) = 1} :
              ReplicateLog(n, block)
       \/ \E n \in Nodes, p \in Nodes : AppendEntries(n, p, 0, TRUE)
       \/ \E n \in Nodes, msg \in net : ProcessAppendEntries(n, msg)
       \/ \E n \in Nodes, msg \in net : ProcessAppendEntriesResponse(n, msg)
    /\ Cardinality(net') <= MaxReplInFlight
    /\ UNCHANGED <<Blocks, Mempool, now, ret, pbft, pc, sc, thr>>

SpecRaftCommit == InitRaft /\ [][NextRaftCommit]_vars

\* C35 (as claimed), in the cluster of three, where the leader and one follower are a
\* strict majority: when a leader has processed the success response of a follower that
\* holds the leader's entry of the current term at an index, the leader's commit index
\* is at least that index.
C35_MajorityCommits ==
    [][\A n \in Nodes : \A resp \in net \ net' :
          (/\ resp.Type = RaftAppendEntriesResp /\ resp.To = n /\ resp.Success
           /\ rn[n].State = RaftLeader /\ resp.Term = rn[n].CurrentTerm) =>
              \A N \in 1..Len(rn[n].Log) :
                  rn[n].Log[N].Term = rn[n].CurrentTerm /\ Holds(resp.NodeID, n, N) =>
                      rn'[n].CommitIndex >= N]_vars

-----------------------------------------------------------------------------
(* unnamed/part_003: one PBFT instance *)

PrePrepare == "pre-prepare"
Prepare    == "prepare"
Commit     == "commit"

StateIdle       == "idle"
StatePrePrepare == "pre-prepare"
StatePrepare    == "prepare"
StateCommit     == "commit"
StateFinalized  == "finalized"

PBFTNodes == <<"p1", "p2", "p3", "p4">>

PBFTMessage(type, blockHash, nodeID, sequence, viewID) ==
    [Type |-> type, BlockHash |-> blockHash, NodeID |-> nodeID, Sequence |-> sequence,
     ViewID |-> viewID]

NewPBFT(nodeID, nodes, block, sequence) ==
    [NodeID |-> nodeID, Nodes |-> nodes, Block |-> block, State |-> StateIdle, ViewID |-> 0,
     Sequence |-> sequence, Messages |-> <<>>, PrepareCount |-> 0, CommitCount |-> 0,
     RequiredVotes |-> 2 * ((Len(nodes) - 1) \div 3) + 1, TotalNodes |-> Len(nodes),
     PrePrepared |-> FALSE, Prepared |-> FALSE, Committed |-> FALSE]

GetPrimaryNode(p) == p.Nodes[(p.ViewID % Len(p.Nodes)) + 1]

IsPrimary(p) == p.NodeID = GetPrimaryNode(p)

OwnMessage(p, type) == PBFTMessage(type, p.Block.Hash, p.NodeID, p.Sequence, p.ViewID)

\* The check every Process* handler starts with
Mismatch(p, msg) ==
    msg.Sequence # p.Sequence \/ msg.ViewID # p.ViewID \/ msg.BlockHash # p.Block.Hash

HasMessageFrom(p, type, nodeID) ==
    \E k \in 1..Len(p.Messages) : p.Messages[k].Type = type /\ p.Messages[k].NodeID = nodeID

\* The instance after each phase function and handler: as it was when the call returns
\* an error, with one more message in its log when it succeeds
PrePreparePhaseOn(p) ==
    IF ~IsPrimary(p) \/ p.State # StateIdle THEN p
    ELSE [p EXCEPT !.Messages = Append(@, OwnMessage(p, PrePrepare)),
                   !.State = StatePrePrepare, !.PrePrepared = TRUE]

ProcessPrePrepareOn(p, msg) ==
    IF msg.NodeID # GetPrimaryNode(p) \/ Mismatch(p, msg) THEN p
    ELSE [p EXCEPT !.Messages = Append(@, msg),
                   !.State = StatePrePrepare, !.PrePrepared = TRUE]

PreparePhaseOn(p) ==
    IF ~p.PrePrepared \/ p.State # StatePrePrepare THEN p
    ELSE [p EXCEPT !.Messages = Append(@, OwnMessage(p, Prepare)),
                   !.PrepareCount = @ + 1, !.State = StatePrepare]

PrePreparePhase ==
    /\ PrePreparePhaseOn(pbft) # pbft
    /\ Len(pbft.Messages) < MaxMessages
    /\ pbft' = PrePreparePhaseOn(pbft)

ProcessPrePrepare(msg) ==
    /\ ProcessPrePrepareOn(pbft, msg) # pbft
    /\ Len(pbft.Messages) < MaxMessages
    /\ pbft' = ProcessPrePrepareOn(pbft, msg)

PreparePhase ==
    /\ PreparePhaseOn(pbft) # pbft
    /\ Len(pbft.Messages) < MaxMessages
    /\ pbft' = PreparePhaseOn(pbft)

\* ProcessPrepare counting every prepare message, also one of a node already counted
ProcessPrepareCounting(p, msg) ==
    IF Mismatch(p, msg) THEN p
    ELSE [p EXCEPT !.Messages = Append(@, msg),
                   !.PrepareCount = @ + 1,
                   !.Prepared = @ \/ p.PrepareCount + 1 >= p.RequiredVotes]

\* The instance after ProcessPrepare(msg): as it was when the call returns early
ProcessPrepareOn(p, msg) ==
    IF Mismatch(p, msg) THEN p
    ELSE IF HasMessageFrom(p, Prepare, msg.NodeID) THEN p
    ELSE [p EXCEPT !.Messages = Append(@, msg),
                   !.PrepareCount = @ + 1,
                   !.Prepared = @ \/ p.PrepareCount + 1 >= p.RequiredVotes]

ProcessPrepare(msg) ==
    /\ ProcessPrepareOn(pbft, msg) # pbft
    /\ Len(pbft.Messages) < MaxMessages
    /\ pbft' = ProcessPrepareOn(pbft, msg)

CommitPhaseOn(p) ==
    IF ~p.Prepared \/ p.State # StatePrepare THEN p
    ELSE [p EXCEPT !.Messages = Append(@, OwnMessage(p, Commit)),
                   !.CommitCount = @ + 1, !.State = StateCommit]

CommitPhase ==
    /\ CommitPhaseOn(pbft) # pbft
    /\ Len(pbft.Messages) < MaxMessages
    /\ pbft' = CommitPhaseOn(pbft)

\* The instance after ProcessCommit(msg): as it was when the call returns early
ProcessCommitOn(p, msg) ==
    IF Mismatch(p, msg) THEN p
    ELSE IF HasMessageFrom(p, Commit, msg.NodeID) THEN p
    ELSE LET quorum == p.CommitCount + 1 >= p.RequiredVotes
         IN  [p EXCEPT !.Messages = Append(@, msg),
                       !.CommitCount = @ + 1,
                       !.Committed = @ \/ quorum,
                       !.State = IF quorum THEN StateFinalized ELSE @]

ProcessCommit(msg) ==
    /\ ProcessCommitOn(pbft, msg) # pbft
    /\ Len(pbft.Messages) < MaxMessages
    /\ pbft' = ProcessCommitOn(pbft, msg)

IsFinalized(p) == p.Committed /\ p.State = StateFinalized

\* PBFT.Validate
PBFTValidate(p) ==
    p.PrepareCount >= p.RequiredVotes /\ p.CommitCount >= p.RequiredVotes /\ IsFinalized(p)

\* The validation loop that opens the CreateBlockWith* functions: balances only
RECURSIVE FirstBalanceError(_, _)
FirstBalanceError(blocks, txs) ==
    IF Len(txs) = 0 THEN ""
    ELSE IF ValidateTransaction(blocks, Head(txs)) # ""
         THEN ValidateTransaction(blocks, Head(txs))
    ELSE FirstBalanceError(blocks, Tail(txs))

\* The instance after the messages CreateBlockWithPBFT makes up for the other nodes,
\* from the i-th node on
RECURSIVE ReceiveFromOthers(_, _, _)
ReceiveFromOthers(p, type, i) ==
    IF i > Len(p.Nodes) THEN p
    ELSE IF p.Nodes[i] = p.NodeID THEN ReceiveFromOthers(p, type, i + 1)
    ELSE LET msg == PBFTMessage(type, p.Block.Hash, p.Nodes[i], p.Sequence, 0)
         IN  ReceiveFromOthers(IF type = Prepare THEN ProcessPrepareOn(p, msg)
                               ELSE ProcessCommitOn(p, msg), type, i + 1)

\* What CreateBlockWithPBFT returns for the block it built: the error, or ""
PBFTConsensusError(nodeID, nodes, newBlock, sequence) ==
    LET p0 == NewPBFT(nodeID, nodes, newBlock, sequence)
        p1 == IF IsPrimary(p0) THEN PrePreparePhaseOn(p0)
              ELSE ProcessPrePrepareOn(p0, PBFTMessage(PrePrepare, newBlock.Hash,
                                                       GetPrimaryNode(p0), sequence, 0))
        p2 == PreparePhaseOn(p1)
        p3 == ReceiveFromOthers(p2, Prepare, 1)
        p4 == CommitPhaseOn(p3)
        p5 == ReceiveFromOthers(p4, Commit, 1)
    IN  IF p1 = p0 THEN "pre-prepare phase failed"
        ELSE IF p2 = p1 THEN "prepare phase failed"
        ELSE IF ~p3.Prepared THEN "failed to reach prepare quorum"
        ELSE IF p4 = p3 THEN "commit phase failed"
        ELSE IF ~IsFinalized(p5) THEN "failed to reach commit quorum"
        ELSE IF ~PBFTValidate(p5) THEN "PBFT consensus validation failed"
        ELSE ""

CreateBlockWithPBFT(transactions, nodes, nodeID) ==
    IF FirstBalanceError(Blocks, transactions) # ""
    THEN /\ ret' = [op |-> "CreateBlockWithPBFT", err |-> FirstBalanceError(Blocks, transactions)]
         /\ UNCHANGED <<Blocks, Mempool, now>>
    ELSE \E t \in Times :
            LET prevBlock == Last(Blocks)
                newBlock  == Sealed(NewBlock(prevBlock.Index + 1, t, transactions, prevBlock.Hash))
                err       == PBFTConsensusError(nodeID, nodes, newBlock, Len(Blocks))
            IN  /\ err = "" => Len(Blocks) < MaxBlocks
                /\ Blocks' = IF err = "" THEN Append(Blocks, newBlock) ELSE Blocks
                /\ now' = t
                /\ ret' = [op |-> "CreateBlockWithPBFT", err |-> err]
                /\ UNCHANGED Mempool

\* The node lists and node ids CreateBlockWithPBFT is called with
PBFTClusters == {PBFTNodes, <<"p1">>}
PBFTCallers  == {"p1", "p2"}

\* The transaction lists put to consensus
ConsensusTxLists == {<<cbA>>, <<tAB50>>, <<cbA, tBA10>>, <<tBad>>}

\* A chain whose blocks are mined locally or agreed on by PBFT
NextPBFTChain ==
    /\ \/ \E tx \in {tAB50, tBA10} : AddTransactionToMempool(tx)
       \/ \E transactions \in ConsensusTxLists : AddBlockWithReward(transactions, "")
       \/ \E transactions \in ConsensusTxLists, nodes \in PBFTClusters, nodeID \in PBFTCallers :
              CreateBlockWithPBFT(transactions, nodes, nodeID)
    /\ UNCHANGED <<rn, net, nodeBlocks, pbft, pc, sc, thr>>

SpecPBFTChain == Init /\ [][NextPBFTChain]_vars

\* The candidate after the votes StartElection makes up for the peers from the i-th on:
\* one granted response per peer other than the node, until the node is leader
RECURSIVE CollectVotes(_, _, _, _)
CollectVotes(r, id, peers, i) ==
    IF i > Len(peers) \/ r.State = RaftLeader THEN r
    ELSE IF peers[i] = id THEN CollectVotes(r, id, peers, i + 1)
    ELSE LET voteMsg == [RaftMessage(RaftRequestVoteResp, r.CurrentTerm, peers[i], id) EXCEPT
                             !.VoteGranted = TRUE]
         IN  CollectVotes(CountVote(r, voteMsg, id, peers), id, peers, i + 1)

\* The node after StartElection; the election failed when it is not leader
StartElection(r, id, peers) == CollectVotes(StandAsCandidate(r, id), id, peers, 1)

\* CreateBlockWithRaft on a node it creates for the call.  LogIndex and CommitIndex are
\* the node's log length and commit index right after the append, as the call prints them
CreateBlockWithRaft(transactions, nodeID, nodes) ==
    IF FirstBalanceError(Blocks, transactions) # ""
    THEN /\ ret' = [op |-> "CreateBlockWithRaft", err |-> FirstBalanceError(Blocks, transactions)]
         /\ UNCHANGED <<Blocks, Mempool, now>>
    ELSE LET raftNode == StartElection(NewRaftNodeOf(nodes), nodeID, nodes)
         IN  IF raftNode.State # RaftLeader
             THEN /\ ret' = [op |-> "CreateBlockWithRaft",
                             err |-> "leader election failed: failed to win election"]
                  /\ UNCHANGED <<Blocks, Mempool, now>>
             ELSE \E t \in Times :
                     LET prevBlock  == Last(Blocks)
                         newBlock   == Sealed(NewBlock(prevBlock.Index + 1, t, transactions,
                                                       prevBlock.Hash))
                         entry      == [Index |-> Len(raftNode.Log) + 1,
                                        Term |-> raftNode.CurrentTerm, Command |-> newBlock]
                         replicated == AssumeSuccessOf(nodeID,
                                           [raftNode EXCEPT !.Log = Append(@, entry)],
                                           Blocks, 1, nodes)
                         appended   == Append(replicated[2], newBlock)
                         heartbeat  == AssumeSuccessOf(nodeID, replicated[1], appended, 1, nodes)
                     IN  /\ Len(Blocks) < MaxBlocks
                         /\ Blocks' = heartbeat[2]
                         /\ now' = t
                         /\ ret' = [op |-> "CreateBlockWithRaft", err |-> "",
                                    LogIndex |-> Len(replicated[1].Log),
                                    CommitIndex |-> replicated[1].CommitIndex]
                         /\ UNCHANGED Mempool

\* The node lists and node ids CreateBlockWithRaft is called with
RaftClusters == {<<"n1">>, <<"n1", "n2">>, Peers, VotePeers}
RaftCallers  == {"n1", "n2"}

\* A chain whose blocks are mined locally or agreed on by Raft
NextRaftChain ==
    /\ \/ \E tx \in {tAB50, tBA10} : AddTransactionToMempool(tx)
       \/ \E transactions \in ConsensusTxLists : AddBlockWithReward(transactions, "")
       \/ \E transactions \in ConsensusTxLists, nodes \in RaftClusters, nodeID \in RaftCallers :
              CreateBlockWithRaft(transactions, nodeID, nodes)
    /\ UNCHANGED <<rn, net, nodeBlocks, pbft, pc, sc, thr>>

SpecRaftChain == Init /\ [][NextRaftChain]_vars

\* C34 (as claimed): a CreateBlockWithRaft that succeeds appended its block when the log
\* index of the block's entry was at or below the node's commit index, and the block is
\* in the chain exactly once, whatever the size of the cluster.
C34_AppendWhenCommitted ==
    [][(ret'.op = "CreateBlockWithRaft" /\ ret'.err = "") =>
          /\ ret'.LogIndex <= ret'.CommitIndex
          /\ Len(Blocks') = Len(Blocks) + 1
          /\ Cardinality({k \in 1..Len(Blocks') : Blocks'[k].Hash = Last(Blocks').Hash}) = 1]_vars

\* C18 (as claimed): when an operation has appended a block and returned success, none of
\* the block's transactions with a sender is pending in the mempool any more.
C18_IncludedAreEvicted ==
    [][ret'.err = "" /\ Len(Blocks') = Len(Blocks) + 1 =>
          \A k \in 1..Len(Last(Blocks').Transactions) :
              Last(Blocks').Transactions[k].From # "" =>
                  TxHash(Last(Blocks').Transactions[k]) \notin DOMAIN Mempool']_vars

\* C19 (as claimed): the chain a successful CreateBlockWithPBFT has extended is accepted
\* by IsValid, although the block was not mined.
C19_PBFTChainIsValid ==
    ret.op = "CreateBlockWithPBFT" /\ ret.err = "" /\ IsValid(SubSeq(Blocks, 1, Len(Blocks) - 1))
        => IsValid(Blocks)

\* What the peers send: messages of every node for this or the next sequence number, on
\* the instance's block or on another one
PBFTInputs(type) ==
    {PBFTMessage(type, h, PBFTNodes[i], sq, 0) :
        h \in {pbft.Block.Hash, "other"}, i \in 1..Len(PBFTNodes), sq \in {1, 2}}

\* The instance of the primary of view 0, for the first block after genesis
InitPBFT ==
    /\ InitChain
    /\ pbft = NewPBFT(PBFTNodes[1], PBFTNodes,
                      Sealed(NewBlock(1, 0, <<cbA>>, GenesisBlock(0).Hash)), 1)
    /\ rn = <<>> /\ net = {} /\ nodeBlocks = <<>>
    /\ pc = <<>>
    /\ sc = <<>>
    /\ thr = <<>>

NextPBFT ==
    /\ \/ PrePreparePhase
       \/ \E msg \in PBFTInputs(PrePrepare) : ProcessPrePrepare(msg)
       \/ PreparePhase
       \/ \E msg \in PBFTInputs(Prepare) : ProcessPrepare(msg)
       \/ CommitPhase
       \/ \E msg \in PBFTInputs(Commit) : ProcessCommit(msg)
    /\ UNCHANGED <<Blocks, Mempool, now, ret, rn, net, nodeBlocks, pc, sc, thr>>

SpecPBFT == InitPBFT /\ [][NextPBFT]_vars

\* The nodes with a message of the given type in the log for the instance's view,
\* sequence and block
Voters(p, type) ==
    {p.Messages[k].NodeID : k \in {j \in 1..Len(p.Messages) :
                                      p.Messages[j].Type = type /\ ~Mismatch(p, p.Messages[j])}}

\* C4 (as claimed): a finalized instance holds prepare messages of at least 2f+1
\* distinct nodes and commit messages of at least 2f+1 distinct nodes, all for its view,
\* sequence and block, with f = (n-1)/3.
C4_FinalizedByQuorums ==
    IsFinalized(pbft) =>
        /\ Cardinality(Voters(pbft, Prepare)) >= 2 * ((pbft.TotalNodes - 1) \div 3) + 1
        /\ Cardinality(Voters(pbft, Commit)) >= 2 * ((pbft.TotalNodes - 1) \div 3) + 1

\* The place of a state in the order idle, pre-prepare, prepare, commit, finalized
StateRank(state) ==
    CASE state = StateIdle -> 0
      [] state = StatePrePrepare -> 1
      [] state = StatePrepare -> 2
      [] state = StateCommit -> 3
      [] state = StateFinalized -> 4

\* C26 (as claimed): whenever an operation changes the State of the instance, it moves it
\* to the next state of the order idle, pre-prepare, prepare, commit, finalized.
C26_StateOrder ==
    [][pbft'.State # pbft.State => StateRank(pbft'.State) = StateRank(pbft.State) + 1]_vars

\* The configured nodes with a message of the given type in the log
Senders(p, type) ==
    {p.Nodes[i] : i \in {j \in 1..Len(p.Nodes) : HasMessageFrom(p, type, p.Nodes[j])}}

\* C27 (as claimed): PrepareCount is at most the number of configured nodes with a prepare
\* message in the log, and CommitCount at most the number of those with a commit message.
C27_CountsDistinctNodes ==
    /\ pbft.PrepareCount <= Cardinality(Senders(pbft, Prepare))
    /\ pbft.CommitCount <= Cardinality(Senders(pbft, Commit))

\* The log holds a message of this type from the sender of msg for msg's view and sequence
AlreadyReceived(p, msg) ==
    \E k \in 1..Len(p.Messages) :
        /\ p.Messages[k].Type = msg.Type
        /\ p.Messages[k].NodeID = msg.NodeID
        /\ p.Messages[k].ViewID = msg.ViewID
        /\ p.Messages[k].Sequence = msg.Sequence

\* C14: a prepare (commit) message of a node whose prepare (commit) for the same view and
\* sequence is in the log already changes nothing: the counts, the message log, the flags
\* and State of the instance are as they were.
C14_DuplicateIsNoOp ==
    /\ \A msg \in PBFTInputs(Prepare) :
           AlreadyReceived(pbft, msg) => ProcessPrepareOn(pbft, msg) = pbft
    /\ \A msg \in PBFTInputs(Commit) :
           AlreadyReceived(pbft, msg) => ProcessCommitOn(pbft, msg) = pbft

\* The instance holds a prepare and a commit received from another node, has room in its
\* log, and is one message short of either quorum, so that one more would count
C14_Witness ==
    /\ \E msg \in PBFTInputs(Prepare) : msg.NodeID # pbft.NodeID /\ AlreadyReceived(pbft, msg)
    /\ \E msg \in PBFTInputs(Commit) : msg.NodeID # pbft.NodeID /\ AlreadyReceived(pbft, msg)
    /\ pbft.PrepareCount = pbft.RequiredVotes - 1
    /\ pbft.CommitCount = pbft.RequiredVotes - 1
    /\ Len(pbft.Messages) < MaxMessages

-----------------------------------------------------------------------------
(* unnamed/part_001: one payment channel and the participants using it *)

Fmt2(a) == ToString(a) \o ".00"

generateChannelID(participant1, participant2, timestamp) ==
    Sha256(participant1 \o ":" \o participant2 \o ":" \o ToString(timestamp))

signChannelState(state, signer) ==
    Sha256(state.ChannelID \o ":" \o Fmt2(state.Balance1) \o ":" \o Fmt2(state.Balance2)
             \o ":" \o ToString(state.SequenceNumber) \o ":" \o signer)

generateClosingTxHash(state) ==
    Sha256("closing:" \o state.ChannelID \o ":" \o Fmt2(state.Balance1) \o ":"
             \o Fmt2(state.Balance2) \o ":" \o ToString(state.SequenceNumber))

NoState == [ChannelID |-> "", Participant1 |-> "", Participant2 |-> "", Balance1 |-> 0,
            Balance2 |-> 0, SequenceNumber |-> 0, Nonce |-> 0, IsClosed |-> FALSE,
            ClosingTxHash |-> ""]

\* What the participants hold: the state they last got from the channel and the
\* signatures they collected on it
Unsigned(state) == [State |-> state, Signature1 |-> "", Signature2 |-> ""]

\* The error of CreateChannel, or "" when it creates the channel
CreateChannelError(blocks, participant1, participant2, deposit1, deposit2) ==
    IF deposit1 <= 0 \/ deposit2 <= 0 THEN "deposits must be positive"
    ELSE IF GetBalance(blocks, participant1) < deposit1
         THEN "participant1 has insufficient balance"
    ELSE IF GetBalance(blocks, participant2) < deposit2
         THEN "participant2 has insufficient balance"
    ELSE ""

CreateChannel(participant1, participant2, deposit1, deposit2, timestamp) ==
    LET initialState == [NoState EXCEPT
                            !.ChannelID = generateChannelID(participant1, participant2, timestamp),
                            !.Participant1 = participant1, !.Participant2 = participant2,
                            !.Balance1 = deposit1, !.Balance2 = deposit2]
    IN  [State |-> initialState, InitialState |-> initialState,
         DepositAmount |-> deposit1 + deposit2, PendingUpdates |-> <<>>,
         UpdateHistory |-> <<initialState>>,
         hand |-> Unsigned(initialState), ret |-> [op |-> "CreateChannel", err |-> ""]]

NextState(newBalance1, newBalance2) ==
    [pc.State EXCEPT !.Balance1 = newBalance1, !.Balance2 = newBalance2,
                     !.SequenceNumber = @ + 1, !.Nonce = @ + 1,
                     !.IsClosed = FALSE, !.ClosingTxHash = ""]

Failed(op, err) == pc' = [pc EXCEPT !.ret = [op |-> op, err |-> err]]

UpdateState(newBalance1, newBalance2) ==
    IF pc.State.IsClosed THEN Failed("UpdateState", "channel is closed")
    ELSE IF newBalance1 + newBalance2 # pc.State.Balance1 + pc.State.Balance2
         THEN Failed("UpdateState", "total balance must remain constant")
    ELSE IF newBalance1 < 0 \/ newBalance2 < 0
         THEN Failed("UpdateState", "balances cannot be negative")
    ELSE /\ pc.State.SequenceNumber < MaxSeq
         /\ Len(pc.PendingUpdates) < MaxPending
         /\ pc' = [pc EXCEPT !.PendingUpdates = Append(@, NextState(newBalance1, newBalance2)),
                             !.hand = Unsigned(NextState(newBalance1, newBalance2)),
                             !.ret = [op |-> "UpdateState", err |-> ""]]

MicroPayment(sender, amount) ==
    IF pc.State.IsClosed THEN Failed("MicroPayment", "channel is closed")
    ELSE IF sender = pc.State.Participant1
         THEN IF pc.State.Balance1 < amount THEN Failed("MicroPayment", "insufficient balance")
              ELSE /\ pc.State.SequenceNumber < MaxSeq
                   /\ pc' = [pc EXCEPT
                               !.hand = Unsigned(NextState(pc.State.Balance1 - amount,
                                                           pc.State.Balance2 + amount)),
                               !.ret = [op |-> "MicroPayment", err |-> ""]]
    ELSE IF sender = pc.State.Participant2
         THEN IF pc.State.Balance2 < amount THEN Failed("MicroPayment", "insufficient balance")
              ELSE /\ pc.State.SequenceNumber < MaxSeq
                   /\ pc' = [pc EXCEPT
                               !.hand = Unsigned(NextState(pc.State.Balance1 + amount,
                                                           pc.State.Balance2 - amount)),
                               !.ret = [op |-> "MicroPayment", err |-> ""]]
    ELSE Failed("MicroPayment", "sender is not a participant")

\* SignState on the state in hand; the signature goes where its signer's belongs
SignState(signer) ==
    LET state == pc.hand.State
    IN  IF signer # state.Participant1 /\ signer # state.Participant2
        THEN Failed("SignState", "signer is not a participant")
        ELSE pc' = [pc EXCEPT
                      !.hand = IF signer = state.Participant1
                               THEN [@ EXCEPT !.Signature1 = signChannelState(state, signer)]
                               ELSE [@ EXCEPT !.Signature2 = signChannelState(state, signer)],
                      !.ret = [op |-> "SignState", err |-> ""]]

\* CommitState taking a state whose sequence number the channel is already at
CommitStateReplay(signedState) ==
    IF pc.State.IsClosed THEN Failed("CommitState", "channel is closed")
    ELSE IF signedState.Signature1 = "" \/ signedState.Signature2 = ""
         THEN Failed("CommitState", "both signatures are required")
    ELSE IF signedState.State.SequenceNumber < pc.State.SequenceNumber
         THEN Failed("CommitState", "invalid sequence number")
    ELSE pc' = [pc EXCEPT !.State = signedState.State,
                          !.UpdateHistory = Append(@, signedState.State),
                          !.PendingUpdates = <<>>,
                          !.ret = [op |-> "CommitState", err |-> ""]]

\* CommitState without its test of the closed flag
CommitStateAfterClose(signedState) ==
    IF signedState.Signature1 = "" \/ signedState.Signature2 = ""
    THEN Failed("CommitState", "both signatures are required")
    ELSE IF signedState.State.SequenceNumber <= pc.State.SequenceNumber
         THEN Failed("CommitState", "invalid sequence number")
    ELSE pc' = [pc EXCEPT !.State = signedState.State,
                          !.UpdateHistory = Append(@, signedState.State),
                          !.PendingUpdates = <<>>,
                          !.ret = [op |-> "CommitState", err |-> ""]]

CommitState(signedState) ==
    IF pc.State.IsClosed THEN Failed("CommitState", "channel is closed")
    ELSE IF signedState.Signature1 = "" \/ signedState.Signature2 = ""
         THEN Failed("CommitState", "both signatures are required")
    ELSE IF signedState.State.SequenceNumber <= pc.State.SequenceNumber
         THEN Failed("CommitState", "invalid sequence number")
    ELSE pc' = [pc EXCEPT !.State = signedState.State,
                          !.UpdateHistory = Append(@, signedState.State),
                          !.PendingUpdates = <<>>,
                          !.ret = [op |-> "CommitState", err |-> ""]]

CloseChannel(finalState) ==
    IF pc.State.IsClosed THEN Failed("CloseChannel", "channel is already closed")
    ELSE IF finalState.State.SequenceNumber # pc.State.SequenceNumber
         THEN Failed("CloseChannel", "final state sequence number mismatch")
    ELSE pc' = [pc EXCEPT
                  !.State = [finalState.State EXCEPT
                                !.IsClosed = TRUE,
                                !.ClosingTxHash = generateClosingTxHash(finalState.State)],
                  !.ret = [op |-> "CloseChannel", err |-> ""]]

Participants == {"A", "B", "Genesis"}

\* What is in hand with one coin added to the first balance after signing
Tampered(signedState) == [signedState EXCEPT !.State.Balance1 = @ + 1]

\* The states committed so far, with both signatures, as a participant kept them
Replayed ==
    {[State |-> pc.UpdateHistory[k],
      Signature1 |-> signChannelState(pc.UpdateHistory[k], pc.UpdateHistory[k].Participant1),
      Signature2 |-> signChannelState(pc.UpdateHistory[k], pc.UpdateHistory[k].Participant2)] :
        k \in 1..Len(pc.UpdateHistory)}

Amounts == (0 - MaxAmount)..MaxAmount

cbB == NewTransaction("", "B", 50)

\* A chain on which A and B own coins, and a channel they opened on it
InitChannel ==
    /\ Blocks = <<GenesisBlock(0), Mine(NewBlock(1, 0, <<cbA, cbB>>, GenesisBlock(0).Hash))>>
    /\ Mempool = <<>>
    /\ now = 0
    /\ ret = [op |-> "AddBlockWithReward", err |-> ""]
    /\ \E deposit1, deposit2 \in Amounts :
          /\ CreateChannelError(Blocks, "A", "B", deposit1, deposit2) = ""
          /\ pc = CreateChannel("A", "B", deposit1, deposit2, 0)
    /\ rn = <<>> /\ net = {} /\ nodeBlocks = <<>>
    /\ pbft = <<>>
    /\ sc = <<>>
    /\ thr = <<>>

NextChannel ==
    /\ \/ \E newBalance1 \in Amounts \cup 0..(2 * MaxAmount), excess \in {0, 1} :
              UpdateState(newBalance1,
                          pc.State.Balance1 + pc.State.Balance2 - newBalance1 + excess)
       \/ \E sender \in Participants, amount \in Amounts : MicroPayment(sender, amount)
       \/ \E signer \in Participants : SignState(signer)
       \/ \E signedState \in {pc.hand, Tampered(pc.hand)} \cup Replayed : CommitState(signedState)
       \/ \E finalState \in {pc.hand, Tampered(pc.hand)} \cup {r \in Replayed : r.State = pc.State} :
              CloseChannel(finalState)
    /\ UNCHANGED <<Blocks, Mempool, now, ret, rn, net, nodeBlocks, pbft, sc, thr>>

SpecChannel == InitChannel /\ [][NextChannel]_vars

Installed == {pc.UpdateHistory[k] : k \in 1..Len(pc.UpdateHistory)} \cup {pc.State}

\* C5 (as claimed): every state installed as the channel's current state keeps the sum
\* of the two balances at the sum of the deposits, with neither balance below zero.
C5_ChannelConservation ==
    \A st \in Installed :
        /\ st.Balance1 + st.Balance2 = pc.InitialState.Balance1 + pc.InitialState.Balance2
        /\ st.Balance1 >= 0
        /\ st.Balance2 >= 0

\* C15: a successful CommitState moves the channel's sequence number strictly up and was
\* given both signatures; a CommitState that returns an error (a state at or below the
\* current sequence number, or one signature missing) leaves the current state and the
\* update history as they were.
C15_CommitSequence ==
    [][pc'.ret.op = "CommitState" =>
          IF pc'.ret.err = ""
          THEN /\ pc'.State.SequenceNumber > pc.State.SequenceNumber
               /\ pc.hand.Signature1 # "" /\ pc.hand.Signature2 # ""
               /\ pc'.UpdateHistory = Append(pc.UpdateHistory, pc'.State)
          ELSE /\ pc'.State = pc.State
               /\ pc'.UpdateHistory = pc.UpdateHistory]_vars

\* Two states were committed and a CommitState that followed was refused for its
\* sequence number
C15_Witness ==
    /\ pc.ret = [op |-> "CommitState", err |-> "invalid sequence number"]
    /\ Len(pc.UpdateHistory) = 3
    /\ pc.State.SequenceNumber = 2

-----------------------------------------------------------------------------
(* network.go: connection handlers running concurrently on one chain.  Every *)
(* accepted connection gets its own goroutine; the Blockchain has no lock,   *)
(* so the reads and the write of bc.Blocks in a handler are separate steps.  *)

Handlers == {"h1", "h2"}

Idle == [at |-> "idle", block |-> <<>>, blocks |-> <<>>, seen |-> <<>>]

\* What peers send to a node whose chain ends in tail: blocks they mined on that tail,
\* rightly and wrongly numbered, and chains of their own
SentBlocks ==
    {Mine(NewBlock(i, 0, txs, Last(Blocks).Hash)) :
        i \in {Last(Blocks).Index + 1, Last(Blocks).Index + 2}, txs \in {<<cbA>>, <<cbB>>}}

SentChains ==
    {<<GenesisBlock(0), Mine(NewBlock(1, 0, txs, GenesisBlock(0).Hash))>> :
        txs \in {<<cbA>>, <<cbB>>, <<tBad>>}}

\* processMessage on a block message, up to the last check of AddReceivedBlock
ReceiveBlock(h, block) ==
    /\ thr[h].at = "idle"
    /\ IF ReceivedBlockError(Blocks, block) = ""
       THEN /\ thr' = [thr EXCEPT ![h] = [Idle EXCEPT !.at = "append", !.block = block]]
            /\ UNCHANGED ret
       ELSE /\ ret' = [op |-> "AddReceivedBlock", err |-> ReceivedBlockError(Blocks, block)]
            /\ UNCHANGED thr
    /\ UNCHANGED <<Blocks, Mempool, now>>

\* append(bc.Blocks, block): the slice is read ...
ReadBlocks(h) ==
    /\ thr[h].at = "append"
    /\ thr' = [thr EXCEPT ![h] = [@ EXCEPT !.at = "store", !.seen = Blocks]]
    /\ UNCHANGED <<Blocks, Mempool, now, ret>>

\* ... and the longer slice is stored in bc.Blocks; the rest of AddReceivedBlock follows
StoreBlocks(h) ==
    /\ thr[h].at = "store"
    /\ Len(thr[h].seen) < MaxBlocks
    /\ Blocks' = Append(thr[h].seen, thr[h].block)
    /\ Mempool' = RemoveTransactions(Mempool, SpentTxHashes(thr[h].block.Transactions))
    /\ ret' = [op |-> "AddReceivedBlock", err |-> ""]
    /\ thr' = [thr EXCEPT ![h] = Idle]
    /\ UNCHANGED now

\* processMessage on a chain message, up to the comparison of lengths in MergeBlockchain
ReceiveChain(h, receivedBlocks) ==
    /\ thr[h].at = "idle"
    /\ LET err == IF Len(receivedBlocks) = 0 THEN "received empty blockchain"
                  ELSE IF ~validateBlockchain(receivedBlocks)
                       THEN "received blockchain is invalid"
                  ELSE ""
       IN  IF err = "" /\ Len(receivedBlocks) > Len(Blocks)
           THEN /\ thr' = [thr EXCEPT ![h] = [Idle EXCEPT !.at = "replace",
                                                         !.blocks = receivedBlocks]]
                /\ UNCHANGED ret
           ELSE /\ ret' = [op |-> "MergeBlockchain", err |-> err]
                /\ UNCHANGED thr
    /\ UNCHANGED <<Blocks, Mempool, now>>

\* bc.Blocks = receivedBlocks
ReplaceBlocks(h) ==
    /\ thr[h].at = "replace"
    /\ Blocks' = thr[h].blocks
    /\ ret' = [op |-> "MergeBlockchain", err |-> ""]
    /\ thr' = [thr EXCEPT ![h] = Idle]
    /\ UNCHANGED <<Mempool, now>>

InitConc ==
    /\ InitChain
    /\ thr = [h \in Handlers |-> Idle]
    /\ rn = <<>> /\ net = {} /\ nodeBlocks = <<>>
    /\ pbft = <<>>
    /\ pc = <<>>
    /\ sc = <<>>

NextConc ==
    /\ \/ \E h \in Handlers : \E block \in SentBlocks : ReceiveBlock(h, block)
       \/ \E h \in Handlers : ReadBlocks(h)
       \/ \E h \in Handlers : StoreBlocks(h)
       \/ \E h \in Handlers : \E receivedBlocks \in SentChains : ReceiveChain(h, receivedBlocks)
       \/ \E h \in Handlers : ReplaceBlocks(h)
    /\ UNCHANGED <<rn, net, nodeBlocks, pbft, pc, sc>>

SpecConc == InitConc /\ [][NextConc]_vars

\* C10 (as claimed): handlers running at the same time leave the chain as some serial
\* order of them would: no two blocks of the chain share an index or a previous hash.
C10_SerialOutcome ==
    \A i, j \in 1..Len(Blocks) :
        i # j => /\ Blocks[i].Index # Blocks[j].Index
                 /\ Blocks[i].PreviousHash # Blocks[j].PreviousHash

-----------------------------------------------------------------------------
(* smartcontract.go: the token contract                                    *)
(*                                                                         *)
(* A float64 is a finite whole number of tokens, NaN, +Inf or -Inf: the    *)
(* values strconv.ParseFloat can return and the arithmetic can produce.    *)

Fin(n) == [k |-> "fin", v |-> n]
NaN    == [k |-> "nan", v |-> 0]
PosInf == [k |-> "inf", v |-> 1]
NegInf == [k |-> "inf", v |-> 0 - 1]

\* IEEE 754: a + b
FAdd(a, b) ==
    IF a.k = "nan" \/ b.k = "nan" THEN NaN
    ELSE IF a.k = "inf" /\ b.k = "inf" THEN IF a.v = b.v THEN a ELSE NaN
    ELSE IF a.k = "inf" THEN a
    ELSE IF b.k = "inf" THEN b
    ELSE Fin(a.v + b.v)

FNeg(a) == IF a.k = "nan" THEN NaN ELSE [a EXCEPT !.v = 0 - a.v]

\* IEEE 754: a - b
FSub(a, b) == FAdd(a, FNeg(b))

\* IEEE 754: a < b, false when either side is NaN
FLess(a, b) ==
    /\ a.k # "nan" /\ b.k # "nan"
    /\ IF a.k = "inf" THEN a.v < 0 /\ b # a
       ELSE IF b.k = "inf" THEN b.v > 0
       ELSE a.v < b.v

\* IEEE 754: a == b, false when either side is NaN
FEq(a, b) == a.k # "nan" /\ b.k # "nan" /\ a = b

\* IEEE 754: a >= b, false when either side is NaN
FGeq(a, b) == FLess(b, a) \/ FEq(a, b)

\* The decimal spelling of the whole numbers
Decimals == {<<Itoa(n), n>> : n \in (0 - MaxSupply)..MaxSupply}

\* strconv.ParseFloat(amountStr, 64): a decimal, or (in any case) NaN, Inf, Infinity
ParseFloat(amountStr) ==
    IF amountStr = "NaN" THEN [err |-> "", f |-> NaN]
    ELSE IF amountStr \in {"Inf", "+Inf"} THEN [err |-> "", f |-> PosInf]
    ELSE IF amountStr = "-Inf" THEN [err |-> "", f |-> NegInf]
    ELSE IF \E d \in Decimals : d[1] = amountStr
         THEN [err |-> "", f |-> Fin((CHOOSE d \in Decimals : d[1] = amountStr)[2])]
         ELSE [err |-> "invalid syntax", f |-> Fin(0)]

parseAmount(amountStr) ==
    LET parsed == ParseFloat(amountStr)
    IN  IF parsed.err # "" THEN [err |-> "invalid amount", f |-> Fin(0)]
        ELSE IF FLess(parsed.f, Fin(0)) THEN [err |-> "amount cannot be negative", f |-> Fin(0)]
        ELSE [err |-> "", f |-> parsed.f]

validateArgsCount(args, required, funcName) ==
    IF Len(args) < required THEN funcName \o " requires " \o Itoa(required) \o " argument(s)" ELSE ""

NewSmartContract(deployer, contractType) ==
    [Deployer |-> deployer, Type |-> contractType, State |-> <<>>]

\* sc.State[key] = value
setState(c, key, value) ==
    [c EXCEPT !.State = [x \in DOMAIN c.State \cup {key} |-> IF x = key THEN value ELSE c.State[x]]]

\* getBalances and the totalSupply default: what every call of executeToken starts with
WithLedger(c) ==
    LET c1 == IF "balances" \in DOMAIN c.State THEN c ELSE setState(c, "balances", <<>>)
    IN  IF "totalSupply" \in DOMAIN c1.State THEN c1 ELSE setState(c1, "totalSupply", Fin(0))

\* balances[address]: a Go map reads 0.0 for an absent key
BalanceAt(balances, address) ==
    IF address \in DOMAIN balances THEN balances[address] ELSE Fin(0)

\* balances[address] = value
SetBalance(balances, address, value) ==
    [x \in DOMAIN balances \cup {address} |-> IF x = address THEN value ELSE balances[x]]

\* transfer without the balance check
TransferUnchecked(c, ctx) ==
    LET to       == ctx.Args[1]
        amount   == parseAmount(ctx.Args[2]).f
        balances == c.State["balances"]
        debited  == SetBalance(balances, ctx.Caller, FSub(BalanceAt(balances, ctx.Caller), amount))
        credited == SetBalance(debited, to, FAdd(BalanceAt(debited, to), amount))
    IN  [sc |-> setState(c, "balances", credited), result |-> "Transferred", err |-> ""]

TokenTransfer(c, ctx) ==
    LET failed(e) == [sc |-> c, result |-> "", err |-> e]
        balances  == c.State["balances"]
    IN  IF validateArgsCount(ctx.Args, 2, "transfer") # ""
        THEN failed(validateArgsCount(ctx.Args, 2, "transfer"))
        ELSE LET parsed == parseAmount(ctx.Args[2])
             IN  IF parsed.err # "" THEN failed(parsed.err)
                 ELSE IF FEq(parsed.f, Fin(0)) THEN failed("transfer amount must be greater than zero")
                 ELSE IF FLess(BalanceAt(balances, ctx.Caller), parsed.f) THEN failed("insufficient balance")
                 ELSE TransferUnchecked(c, ctx)

\* mint without the deployer check
TokenMintByAnyone(c, ctx) ==
    LET failed(e) == [sc |-> c, result |-> "", err |-> e]
        balances  == c.State["balances"]
    IN  IF validateArgsCount(ctx.Args, 2, "mint") # ""
        THEN failed(validateArgsCount(ctx.Args, 2, "mint"))
        ELSE LET parsed == parseAmount(ctx.Args[2])
                 to     == ctx.Args[1]
             IN  IF parsed.err # "" THEN failed(parsed.err)
                 ELSE [sc |-> setState(setState(c, "totalSupply", FAdd(c.State["totalSupply"], parsed.f)),
                                       "balances",
                                       SetBalance(balances, to, FAdd(BalanceAt(balances, to), parsed.f))),
                       result |-> "Minted", err |-> ""]

TokenMint(c, ctx) ==
    LET failed(e) == [sc |-> c, result |-> "", err |-> e]
        balances  == c.State["balances"]
    IN  IF ctx.Caller # c.Deployer THEN failed("only deployer can mint tokens")
        ELSE IF validateArgsCount(ctx.Args, 2, "mint") # ""
        THEN failed(validateArgsCount(ctx.Args, 2, "mint"))
        ELSE LET parsed == parseAmount(ctx.Args[2])
                 to     == ctx.Args[1]
             IN  IF parsed.err # "" THEN failed(parsed.err)
                 ELSE [sc |-> setState(setState(c, "totalSupply", FAdd(c.State["totalSupply"], parsed.f)),
                                       "balances",
                                       SetBalance(balances, to, FAdd(BalanceAt(balances, to), parsed.f))),
                       result |-> "Minted", err |-> ""]

TokenBurn(c, ctx) ==
    LET failed(e) == [sc |-> c, result |-> "", err |-> e]
        balances  == c.State["balances"]
    IN  IF validateArgsCount(ctx.Args, 1, "burn") # ""
        THEN failed(validateArgsCount(ctx.Args, 1, "burn"))
        ELSE LET parsed == parseAmount(ctx.Args[1])
             IN  IF parsed.err # "" THEN failed(parsed.err)
                 ELSE IF FLess(BalanceAt(balances, ctx.Caller), parsed.f)
                 THEN failed("insufficient balance to burn")
                 ELSE [sc |-> setState(setState(c, "balances",
                                                SetBalance(balances, ctx.Caller,
                                                           FSub(BalanceAt(balances, ctx.Caller), parsed.f))),
                                       "totalSupply", FSub(c.State["totalSupply"], parsed.f)),
                       result |-> "Burned", err |-> ""]

\* executeToken(function, ctx): the contract after the call, what it returned, and the error
executeToken(c, function, ctx) ==
    LET c1 == WithLedger(c)
    IN  CASE function = "transfer" -> TokenTransfer(c1, ctx)
          [] function = "balanceOf" ->
                IF validateArgsCount(ctx.Args, 1, "balanceOf") # ""
                THEN [sc |-> c1, result |-> "", err |-> validateArgsCount(ctx.Args, 1, "balanceOf")]
                ELSE [sc |-> c1, result |-> BalanceAt(c1.State["balances"], ctx.Args[1]), err |-> ""]
          [] function = "totalSupply" -> [sc |-> c1, result |-> c1.State["totalSupply"], err |-> ""]
          [] function = "mint" -> TokenMint(c1, ctx)
          [] function = "burn" -> TokenBurn(c1, ctx)
          [] OTHER -> [sc |-> c1, result |-> "", err |-> "unknown function: " \o function]

\* Execute(function, args, caller, value) on the token contract
Execute(function, args, caller) ==
    LET out == executeToken(sc, function, [Caller |-> caller, Args |-> args])
    IN  /\ sc.Type = "token"
        /\ \A x \in {out.sc.State["totalSupply"]} \cup {out.sc.State["balances"][a] : a \in DOMAIN out.sc.State["balances"]} :
              x.k = "fin" => x.v \in (0 - MaxSupply)..MaxSupply
        /\ sc' = out.sc
        /\ ret' = [op |-> "Execute:" \o function, err |-> out.err]

(* inputs *)

TokenHolders == {"D", "E"}
TokenFunctions == {"transfer", "mint", "burn", "balanceOf", "totalSupply", "approve"}
AmountStrings == {"0", "20", "100", "-20", "abc", "NaN", "Inf"}
\* Argument lists: none, one address or amount, an address and an amount
TokenArgs(function) ==
    {<<>>} \cup
    CASE function \in {"transfer", "mint"} ->
            {<<to, amountStr>> : to \in TokenHolders, amountStr \in AmountStrings}
      [] function = "burn" -> {<<amountStr>> : amountStr \in AmountStrings}
      [] function = "balanceOf" -> {<<address>> : address \in TokenHolders}
      [] OTHER -> {}

InitToken ==
    /\ InitChain
    /\ sc = NewSmartContract("D", "token")
    /\ rn = <<>> /\ net = {} /\ nodeBlocks = <<>>
    /\ pbft = <<>>
    /\ pc = <<>>
    /\ thr = <<>>

NextToken ==
    /\ \E function \in TokenFunctions, caller \in TokenHolders : \E args \in TokenArgs(function) :
          Execute(function, args, caller)
    /\ UNCHANGED <<Blocks, Mempool, now, rn, net, nodeBlocks, pbft, pc, thr>>

SpecToken == InitToken /\ [][NextToken]_vars

RECURSIVE SumOfBalances(_, _)
SumOfBalances(balances, addresses) ==
    IF addresses = {} THEN Fin(0)
    ELSE LET a == CHOOSE x \in addresses : TRUE
         IN  FAdd(balances[a], SumOfBalances(balances, addresses \ {a}))

\* The ledger after the two calls of the example on a fresh contract of deployer D
AfterMintAndTransfer ==
    LET c0 == NewSmartContract("D", "token")
        c1 == executeToken(c0, "mint", [Caller |-> "D", Args |-> <<"D", "100">>]).sc
    IN  executeToken(c1, "transfer", [Caller |-> "D", Args |-> <<"E", "20">>]).sc

\* C20 (as claimed): once the token contract has been called, whatever the calls
\* of mint, transfer and burn and whoever made them, totalSupply equals the sum
\* of the balances and no balance is below zero; mint(D, 100) by the deployer D
\* and then transfer(E, 20) by D give balanceOf(D) = 80, balanceOf(E) = 20 and
\* totalSupply = 100.
C20_TokenSupply ==
    /\ "totalSupply" \in DOMAIN sc.State =>
          /\ FEq(sc.State["totalSupply"],
                 SumOfBalances(sc.State["balances"], DOMAIN sc.State["balances"]))
          /\ \A a \in DOMAIN sc.State["balances"] : FGeq(sc.State["balances"][a], Fin(0))
    /\ executeToken(AfterMintAndTransfer, "balanceOf", [Caller |-> "E", Args |-> <<"D">>]).result = Fin(80)
    /\ executeToken(AfterMintAndTransfer, "balanceOf", [Caller |-> "E", Args |-> <<"E">>]).result = Fin(20)
    /\ executeToken(AfterMintAndTransfer, "totalSupply", [Caller |-> "E", Args |-> <<>>]).result = Fin(100)

\* What totalSupply and balanceOf read on a contract
SupplyOf(c) == WithLedger(c).State["totalSupply"]
BalanceOf(c, address) == BalanceAt(WithLedger(c).State["balances"], address)

\* C21: mint called by anyone but the deployer, whatever its arguments, returns
\* the permission error, and totalSupply and every balance read as before.
C21_MintByDeployerOnly ==
    /\ [](\A caller \in TokenHolders \ {sc.Deployer}, args \in TokenArgs("mint") :
          LET out == executeToken(sc, "mint", [Caller |-> caller, Args |-> args])
          IN  /\ out.err = "only deployer can mint tokens"
              /\ SupplyOf(out.sc) = SupplyOf(sc)
              /\ \A a \in TokenHolders : BalanceOf(out.sc, a) = BalanceOf(sc, a))
    /\ [][ret' = [op |-> "Execute:mint", err |-> "only deployer can mint tokens"] =>
             /\ SupplyOf(sc') = SupplyOf(sc)
             /\ \A a \in TokenHolders : BalanceOf(sc', a) = BalanceOf(sc, a)]_vars

C21_Witness ==
    /\ ret = [op |-> "Execute:mint", err |-> "only deployer can mint tokens"]
    /\ SupplyOf(sc) = Fin(100)
    /\ BalanceOf(sc, "E") = Fin(20)

-----------------------------------------------------------------------------
(* Closing the payment channel                                               *)

\* C29 (as claimed): a CloseChannel that succeeds leaves the closed state with the two
\* balances the channel's current state had immediately before the call, whatever
\* state object with the current sequence number the caller passed.
C29_CloseSettlesCommitted ==
    [][(~pc.State.IsClosed /\ pc'.ret = [op |-> "CloseChannel", err |-> ""]) =>
          /\ pc'.State.IsClosed
          /\ pc'.State.Balance1 = pc.State.Balance1
          /\ pc'.State.Balance2 = pc.State.Balance2]_vars

ChannelOps == {"UpdateState", "MicroPayment", "CommitState", "CloseChannel"}

\* C30: once the channel is closed, every UpdateState, MicroPayment, CommitState and
\* CloseChannel returns an error, and the balances, the sequence number, the closed
\* flag and the closing hash of the current state stay as the close left them.
C30_ClosedIsAbsorbing ==
    [][pc.State.IsClosed =>
          /\ pc'.ret.op \in ChannelOps => pc'.ret.err # ""
          /\ pc'.State.Balance1 = pc.State.Balance1
          /\ pc'.State.Balance2 = pc.State.Balance2
          /\ pc'.State.SequenceNumber = pc.State.SequenceNumber
          /\ pc'.State.IsClosed
          /\ pc'.State.ClosingTxHash = pc.State.ClosingTxHash]_vars

\* The channel was closed at sequence number 1 while a state with sequence number 2 and
\* both signatures was in hand, and the CommitState of it was refused
C30_Witness ==
    /\ pc.State.IsClosed
    /\ pc.State.SequenceNumber = 1
    /\ pc.State.ClosingTxHash = generateClosingTxHash([pc.State EXCEPT !.IsClosed = FALSE, !.ClosingTxHash = ""])
    /\ pc.hand.State.SequenceNumber = 2
    /\ pc.hand.Signature1 # "" /\ pc.hand.Signature2 # ""
    /\ pc.ret = [op |-> "CommitState", err |-> "channel is closed"]

\* C31 (as claimed): every state UpdateState or MicroPayment returns keeps the sum of
\* the current state's balances, has neither balance below zero, and has the current
\* sequence number and nonce plus one; producing it leaves the current state and the
\* update history as they were.
C31_ProposedStates ==
    [][(pc'.ret.op \in {"UpdateState", "MicroPayment"} /\ pc'.ret.err = "") =>
          /\ pc'.hand.State.Balance1 + pc'.hand.State.Balance2
                = pc.State.Balance1 + pc.State.Balance2
          /\ pc'.hand.State.Balance1 >= 0
          /\ pc'.hand.State.Balance2 >= 0
          /\ pc'.hand.State.SequenceNumber = pc.State.SequenceNumber + 1
          /\ pc'.hand.State.Nonce = pc.State.Nonce + 1
          /\ pc'.State = pc.State
          /\ pc'.UpdateHistory = pc.UpdateHistory]_vars

-----------------------------------------------------------------------------
(* smartcontract.go: the escrow contract, called from several goroutines.    *)
(* Execute holds no lock over a call: executeEscrow takes the contract's     *)
(* mutex once to fill in the defaults, once for every value it reads and     *)
(* once for every setState, so these are separate steps.                     *)

Goroutines == {"g1", "g2"}

\* A goroutine between two calls
Resting == [at |-> "idle", function |-> "", caller |-> "", value |-> 0, deposited |-> 0,
            released |-> FALSE, arbiter |-> "", err |-> "", calls |-> 0, settled |-> 0]

\* The defaults executeEscrow stores under the lock before anything else
EscrowDefaults(c, ctx) ==
    LET c1 == IF "deposited" \in DOMAIN c.State THEN c ELSE setState(c, "deposited", 0)
        c2 == IF "released" \in DOMAIN c1.State THEN c1 ELSE setState(c1, "released", FALSE)
        c3 == IF "beneficiary" \in DOMAIN c2.State THEN c2
              ELSE setState(c2, "beneficiary",
                            IF Len(ctx.Args) > 0 THEN ctx.Args[1] ELSE ctx.Caller)
    IN  IF "arbiter" \in DOMAIN c3.State THEN c3 ELSE setState(c3, "arbiter", c3.Deployer)

\* Execute on the escrow contract, up to the end of the locked initialisation
EscrowBegin(g, function, ctx) ==
    /\ sc.Type = "escrow"
    /\ thr[g].at = "idle"
    /\ thr[g].calls < MaxCalls
    /\ sc' = EscrowDefaults(sc, ctx)
    /\ thr' = [thr EXCEPT ![g] = [@ EXCEPT !.at = "deposited", !.function = function,
                                           !.caller = ctx.Caller, !.value = ctx.Value,
                                           !.err = "", !.calls = @ + 1]]

\* deposited, _ := sc.getStateFloat("deposited")
EscrowReadDeposited(g) ==
    /\ thr[g].at = "deposited"
    /\ thr' = [thr EXCEPT ![g] = [@ EXCEPT !.at = "released", !.deposited = sc.State["deposited"]]]
    /\ UNCHANGED sc

\* released, beneficiary and arbiter; the last two never change once they are stored
EscrowReadReleased(g) ==
    /\ thr[g].at = "released"
    /\ thr' = [thr EXCEPT ![g] = [@ EXCEPT !.at = "switch", !.released = sc.State["released"],
                                           !.arbiter = sc.State["arbiter"]]]
    /\ UNCHANGED sc

\* The error of release and refund on the values the call has read, or ""
SettleError(t, deployer, what) ==
    IF t.caller # t.arbiter /\ t.caller # deployer
    THEN "only arbiter or deployer can " \o what \o " escrow"
    ELSE IF t.released THEN "escrow already released"
    ELSE IF t.deposited = 0 THEN "no funds in escrow"
    ELSE ""

EscrowReturn(g, err) == thr' = [thr EXCEPT ![g] = [@ EXCEPT !.at = "idle", !.err = err]]

EscrowSettled(g, next) ==
    thr' = [thr EXCEPT ![g] = [@ EXCEPT !.at = next, !.err = "", !.settled = @ + 1]]

\* The switch of executeEscrow, up to its first setState
EscrowSwitch(g) ==
    LET t == thr[g]
    IN  /\ t.at = "switch"
        /\ CASE t.function = "deposit" ->
                   IF t.released THEN EscrowReturn(g, "escrow already released") /\ UNCHANGED sc
                   ELSE IF t.value <= 0
                        THEN /\ EscrowReturn(g, "deposit value must be greater than zero")
                             /\ UNCHANGED sc
                   ELSE /\ t.deposited + t.value <= MaxEscrow
                        /\ sc' = setState(sc, "deposited", t.deposited + t.value)
                        /\ EscrowReturn(g, "")
             [] t.function = "release" ->
                   IF SettleError(t, sc.Deployer, "release") # ""
                   THEN EscrowReturn(g, SettleError(t, sc.Deployer, "release")) /\ UNCHANGED sc
                   ELSE /\ sc' = setState(sc, "released", TRUE)
                        /\ EscrowSettled(g, "idle")
             [] t.function = "refund" ->
                   IF SettleError(t, sc.Deployer, "refund") # ""
                   THEN EscrowReturn(g, SettleError(t, sc.Deployer, "refund")) /\ UNCHANGED sc
                   ELSE /\ sc' = setState(sc, "released", TRUE)
                        /\ EscrowSettled(g, "refunded")
             [] OTHER -> EscrowReturn(g, "unknown function: " \o t.function) /\ UNCHANGED sc

\* sc.setState("refunded", true), the second store of refund
EscrowSetRefunded(g) ==
    /\ thr[g].at = "refunded"
    /\ sc' = setState(sc, "refunded", TRUE)
    /\ thr' = [thr EXCEPT ![g] = [@ EXCEPT !.at = "idle"]]

EscrowFunctions == {"deposit", "release", "refund", "withdraw"}
EscrowCallers   == {"D", "E"}
EscrowValues    == {0, 50}

InitEscrow ==
    /\ InitChain
    /\ sc = NewSmartContract("D", "escrow")
    /\ thr = [g \in Goroutines |-> Resting]
    /\ rn = <<>> /\ net = {} /\ nodeBlocks = <<>>
    /\ pbft = <<>>
    /\ pc = <<>>

NextEscrow ==
    /\ \/ \E g \in Goroutines, function \in EscrowFunctions, caller \in EscrowCallers,
             value \in EscrowValues, args \in {<<>>, <<"B">>} :
              EscrowBegin(g, function, [Caller |-> caller, Value |-> value, Args |-> args])
       \/ \E g \in Goroutines : EscrowReadDeposited(g)
       \/ \E g \in Goroutines : EscrowReadReleased(g)
       \/ \E g \in Goroutines : EscrowSwitch(g)
       \/ \E g \in Goroutines : EscrowSetRefunded(g)
    /\ UNCHANGED <<Blocks, Mempool, now, ret, rn, net, nodeBlocks, pbft, pc>>

SpecEscrow == InitEscrow /\ [][NextEscrow]_vars

\* The release and refund calls that have succeeded so far
Settlements == thr["g1"].settled + thr["g2"].settled

\* C36 (as claimed): over every sequence and every interleaving of calls on one escrow
\* contract at most one release or refund succeeds, and the one that succeeds is called
\* by the arbiter or the deployer while the contract holds a deposit above zero and is
\* not released.
C36_SettledOnce ==
    /\ [](Settlements <= 1)
    /\ [][\A g \in Goroutines :
             thr'[g].settled > thr[g].settled =>
                 /\ thr[g].caller \in {sc.State["arbiter"], sc.Deployer}
                 /\ sc.State["deposited"] > 0
                 /\ ~sc.State["released"]]_vars

-----------------------------------------------------------------------------
(* smartcontract.go: the voting contract, called from several goroutines.    *)
(* executeVoting takes the contract's mutex for getProposals and getVoters,  *)
(* for the test and the store of the votingEnded default, for the read of    *)
(* votingEnded, and for the body of propose and of vote; endVoting stores    *)
(* through setState.                                                         *)

\* A goroutine between two calls; ended is set once its endVoting has succeeded
Waiting == [at |-> "idle", function |-> "", caller |-> "", args |-> <<>>,
            votingEnded |-> FALSE, err |-> "", calls |-> 0, ended |-> FALSE]

\* getProposals and getVoters: the two maps, made when they are missing
WithPolls(c) ==
    LET c1 == IF "proposals" \in DOMAIN c.State THEN c ELSE setState(c, "proposals", <<>>)
    IN  IF "voters" \in DOMAIN c1.State THEN c1 ELSE setState(c1, "voters", {})

VotingBegin(g, function, ctx) ==
    /\ sc.Type = "voting"
    /\ thr[g].at = "idle"
    /\ thr[g].calls < MaxCalls
    /\ sc' = WithPolls(sc)
    /\ thr' = [thr EXCEPT ![g] = [@ EXCEPT !.at = "exists", !.function = function,
                                           !.caller = ctx.Caller, !.args = ctx.Args,
                                           !.err = "", !.calls = @ + 1]]

\* if _, exists := sc.getStateBool("votingEnded"); !exists
VotingCheckExists(g) ==
    /\ thr[g].at = "exists"
    /\ thr' = [thr EXCEPT ![g] = [@ EXCEPT !.at = IF "votingEnded" \in DOMAIN sc.State
                                                  THEN "read" ELSE "default"]]
    /\ UNCHANGED sc

\* sc.setState("votingEnded", false)
VotingSetDefault(g) ==
    /\ thr[g].at = "default"
    /\ sc' = setState(sc, "votingEnded", FALSE)
    /\ thr' = [thr EXCEPT ![g] = [@ EXCEPT !.at = "read"]]

\* votingEnded, _ := sc.getStateBool("votingEnded")
VotingReadEnded(g) ==
    /\ thr[g].at = "read"
    /\ thr' = [thr EXCEPT ![g] = [@ EXCEPT !.at = "switch",
                                           !.votingEnded = sc.State["votingEnded"]]]
    /\ UNCHANGED sc

VotingReturn(g, err) == thr' = [thr EXCEPT ![g] = [@ EXCEPT !.at = "idle", !.err = err]]

\* proposals[proposal] = votes
SetVotes(c, proposal, votes) ==
    setState(c, "proposals",
             [x \in DOMAIN c.State["proposals"] \cup {proposal} |->
                 IF x = proposal THEN votes ELSE c.State["proposals"][x]])

\* The switch of executeVoting; the bodies of propose and vote run under the mutex
VotingSwitch(g) ==
    LET t == thr[g]
        proposals == sc.State["proposals"]
        voters    == sc.State["voters"]
    IN  /\ t.at = "switch"
        /\ CASE t.function \in {"propose", "vote"} /\ t.votingEnded ->
                   VotingReturn(g, "voting has ended") /\ UNCHANGED sc
             [] t.function \in {"propose", "vote"} /\ ~t.votingEnded /\ Len(t.args) < 1 ->
                   VotingReturn(g, t.function \o " requires 1 argument(s)") /\ UNCHANGED sc
             [] t.function = "propose" /\ ~t.votingEnded /\ Len(t.args) >= 1 ->
                   IF t.args[1] \in DOMAIN proposals
                   THEN VotingReturn(g, "proposal already exists") /\ UNCHANGED sc
                   ELSE sc' = SetVotes(sc, t.args[1], 0) /\ VotingReturn(g, "")
             [] t.function = "vote" /\ ~t.votingEnded /\ Len(t.args) >= 1 ->
                   IF t.caller \in voters
                   THEN VotingReturn(g, "address already voted") /\ UNCHANGED sc
                   ELSE IF t.args[1] \notin DOMAIN proposals
                        THEN VotingReturn(g, "proposal not found") /\ UNCHANGED sc
                   ELSE /\ sc' = setState(SetVotes(sc, t.args[1], proposals[t.args[1]] + 1),
                                          "voters", voters \cup {t.caller})
                        /\ VotingReturn(g, "")
             [] t.function = "endVoting" ->
                   IF t.caller # sc.Deployer
                   THEN VotingReturn(g, "only deployer can end voting") /\ UNCHANGED sc
                   ELSE IF t.votingEnded
                        THEN VotingReturn(g, "voting already ended") /\ UNCHANGED sc
                   ELSE /\ sc' = setState(sc, "votingEnded", TRUE)
                        /\ thr' = [thr EXCEPT ![g] = [@ EXCEPT !.at = "idle", !.err = "",
                                                               !.ended = TRUE]]
             [] OTHER -> VotingReturn(g, "unknown function: " \o t.function) /\ UNCHANGED sc

VotingFunctions == {"propose", "vote", "endVoting", "tally"}
VotingCallers   == {"D", "E"}
VotingArgs      == {<<>>, <<"x">>, <<"y">>}

InitVoting ==
    /\ InitChain
    /\ sc = NewSmartContract("D", "voting")
    /\ thr = [g \in Goroutines |-> Waiting]
    /\ rn = <<>> /\ net = {} /\ nodeBlocks = <<>>
    /\ pbft = <<>>
    /\ pc = <<>>

NextVoting ==
    /\ \/ \E g \in Goroutines, function \in VotingFunctions, caller \in VotingCallers,
             args \in VotingArgs :
              VotingBegin(g, function, [Caller |-> caller, Args |-> args])
       \/ \E g \in Goroutines : VotingCheckExists(g)
       \/ \E g \in Goroutines : VotingSetDefault(g)
       \/ \E g \in Goroutines : VotingReadEnded(g)
       \/ \E g \in Goroutines : VotingSwitch(g)
    /\ UNCHANGED <<Blocks, Mempool, now, ret, rn, net, nodeBlocks, pbft, pc>>

SpecVoting == InitVoting /\ [][NextVoting]_vars

\* C37 (as claimed): once an endVoting call has returned successfully, no step of any
\* call, started later or running when endVoting ran, changes the proposals or the set
\* of voters.
C37_TalliesFinal ==
    [][(\E g \in Goroutines : thr[g].ended) =>
          /\ sc'.State["proposals"] = sc.State["proposals"]
          /\ sc'.State["voters"] = sc.State["voters"]]_vars

-----------------------------------------------------------------------------
(* smartcontract.go, blockchain.go: the contract registry of a chain *)

\* The address NewSmartContract derives from the deployer and the block index
ContractAddress(deployer, blockIndex) == "0x" \o Sha256(deployer \o Itoa(blockIndex))

NewContractRegistry == [Contracts |-> <<>>]

\* cr.Contracts[address] = contract
Store(cr, address, contract) ==
    [cr EXCEPT !.Contracts = [a \in DOMAIN cr.Contracts \cup {address} |->
                                 IF a = address THEN contract ELSE cr.Contracts[a]]]

\* Blockchain.DeployContract: the block index is the length of the chain
DeployContract(deployer, contractType) ==
    IF deployer = ""
    THEN /\ ret' = [op |-> "DeployContract", err |-> "deployer address cannot be empty",
                    address |-> ""]
         /\ UNCHANGED sc
    ELSE LET address == ContractAddress(deployer, Len(Blocks))
         IN  /\ sc' = Store(sc, address, NewSmartContract(deployer, contractType))
             /\ ret' = [op |-> "DeployContract", err |-> "", address |-> address]

\* executeSimple: the contract after the call, and the error
executeSimple(c, function, ctx) ==
    CASE function = "set" ->
            IF validateArgsCount(ctx.Args, 2, "set") # ""
            THEN [sc |-> c, err |-> validateArgsCount(ctx.Args, 2, "set")]
            ELSE [sc |-> setState(c, ctx.Args[1], ctx.Args[2]), err |-> ""]
      [] function = "get" ->
            IF validateArgsCount(ctx.Args, 1, "get") # ""
            THEN [sc |-> c, err |-> validateArgsCount(ctx.Args, 1, "get")]
            ELSE IF ctx.Args[1] \notin DOMAIN c.State THEN [sc |-> c, err |-> "key not found"]
            ELSE [sc |-> c, err |-> ""]
      [] function = "delete" ->
            IF validateArgsCount(ctx.Args, 1, "delete") # ""
            THEN [sc |-> c, err |-> validateArgsCount(ctx.Args, 1, "delete")]
            ELSE IF ctx.Args[1] \notin DOMAIN c.State THEN [sc |-> c, err |-> "key not found"]
            ELSE [sc |-> [c EXCEPT !.State = [k \in DOMAIN c.State \ {ctx.Args[1]} |-> c.State[k]]],
                  err |-> ""]
      [] OTHER -> [sc |-> c, err |-> "unknown function: " \o function]

\* Blockchain.CallContract on a simple contract
CallContract(contractAddress, function, args, caller) ==
    IF contractAddress \notin DOMAIN sc.Contracts
    THEN /\ ret' = [op |-> "CallContract", err |-> "contract not found", address |-> contractAddress]
         /\ UNCHANGED sc
    ELSE LET out == executeSimple(sc.Contracts[contractAddress], function,
                                  [Caller |-> caller, Args |-> args])
         IN  /\ sc' = Store(sc, contractAddress, out.sc)
             /\ ret' = [op |-> "CallContract", err |-> out.err, address |-> contractAddress]

Deployers == {"D", "E", ""}
SimpleCalls == {<<"set", <<"k", "v">>>>, <<"set", <<"k">>>>, <<"get", <<"k">>>>,
                <<"delete", <<"k">>>>, <<"clear", <<>>>>}

InitRegistry ==
    /\ InitChain
    /\ sc = NewContractRegistry
    /\ rn = <<>> /\ net = {} /\ nodeBlocks = <<>>
    /\ pbft = <<>>
    /\ pc = <<>>
    /\ thr = <<>>

NextRegistry ==
    \/ /\ AddBlockWithReward(<<cbA>>, "")
       /\ UNCHANGED <<rn, net, nodeBlocks, pbft, pc, sc, thr>>
    \/ /\ \E deployer \in Deployers : DeployContract(deployer, "simple")
       /\ UNCHANGED <<Blocks, Mempool, now, rn, net, nodeBlocks, pbft, pc, thr>>
    \/ /\ \E deployer \in Deployers \ {""}, blockIndex \in 1..MaxBlocks, call \in SimpleCalls :
             CallContract(ContractAddress(deployer, blockIndex), call[1], call[2], "D")
       /\ UNCHANGED <<Blocks, Mempool, now, rn, net, nodeBlocks, pbft, pc, thr>>

SpecRegistry == InitRegistry /\ [][NextRegistry]_vars

\* C38 (as claimed): a deployed contract stays registered under its address, a
\* deployment or a block addition leaves it as it was, with the state its calls built
\* up, and every deployment gets an address no earlier deployment got.
C38_ContractsPersist ==
    [][/\ \A a \in DOMAIN sc.Contracts :
             /\ a \in DOMAIN sc'.Contracts
             /\ ret'.op # "CallContract" => sc'.Contracts[a] = sc.Contracts[a]
       /\ (ret'.op = "DeployContract" /\ ret'.err = "") =>
             ret'.address \notin DOMAIN sc.Contracts]_vars

-----------------------------------------------------------------------------
(* unnamed/part_000: proof of stake *)

RECURSIVE SumStakes(_, _)
SumStakes(stakeholders, addresses) ==
    IF addresses = {} THEN 0
    ELSE LET a == CHOOSE x \in addresses : TRUE
         IN  stakeholders[a] + SumStakes(stakeholders, addresses \ {a})

\* big.Int(sha256(PreviousHash + MerkleRoot)) / 1e38: a number fixed by the two fields. The
\* digest has 256 bits and 1e38 has 127, so the quotient of nearly every digest is above 1
Normalized(block) == (Len(block.PreviousHash) + Len(block.MerkleRoot)) % PosPeriod

\* The weighted loop over the map, visited in the given order from the i-th key on: the
\* position of the address returned, 0 when the loop ends without returning
RECURSIVE WeightedPick(_, _, _, _, _)
WeightedPick(stakeholders, order, randomValue, i, currentSum) ==
    IF i > Len(order) THEN 0
    ELSE IF randomValue <= currentSum + stakeholders[order[i]] THEN i
    ELSE WeightedPick(stakeholders, order, randomValue, i + 1,
                      currentSum + stakeholders[order[i]])

NewProofOfStake(block, stakeholders) == [Block |-> block, Stakeholders |-> stakeholders]

\* SelectValidator when the weighted loop visits the map in the order `order` and the
\* fallback loop visits it in the order `again`
SelectValidatorIn(pos, order, again) ==
    LET totalStake  == SumStakes(pos.Stakeholders, DOMAIN pos.Stakeholders)
        randomValue == Normalized(pos.Block) * totalStake
        picked      == WeightedPick(pos.Stakeholders, order, randomValue, 1, 0)
    IN  IF DOMAIN pos.Stakeholders = {} THEN ""
        ELSE IF totalStake = 0 THEN ""
        ELSE IF picked # 0 THEN order[picked]
        ELSE again[1]

ValidateIn(pos, validatorAddress, order, again) ==
    /\ validatorAddress \in DOMAIN pos.Stakeholders
    /\ pos.Stakeholders[validatorAddress] > 0
    /\ SelectValidatorIn(pos, order, again) = validatorAddress

RECURSIVE SeenInTxs(_)
SeenInTxs(txs) ==
    IF Len(txs) = 0 THEN {}
    ELSE LET tx == Head(txs)
         IN  (IF tx.From # "" THEN {tx.From} ELSE {})
                \cup (IF tx.To # "" /\ tx.To # "Genesis" THEN {tx.To} ELSE {})
                \cup SeenInTxs(Tail(txs))

CalculateStakeFromBlockchain(blocks) ==
    LET addresses == UNION {SeenInTxs(blocks[i].Transactions) : i \in 1..Len(blocks)}
    IN  [a \in {x \in addresses : GetBalance(blocks, x) > 0} |-> GetBalance(blocks, a)]

\* A range over a Go map visits the keys in an order the language leaves open
IterationOrders(stakeholders) == Orderings(DOMAIN stakeholders)

\* pos.SelectValidator() as the demos call it: on the last block and the stakes of the chain
SelectValidator ==
    LET pos == NewProofOfStake(Last(Blocks), CalculateStakeFromBlockchain(Blocks))
    IN  /\ \E order \in IterationOrders(pos.Stakeholders),
              again \in IterationOrders(pos.Stakeholders) :
              ret' = [op |-> "SelectValidator", err |-> "", Pos |-> pos, arg |-> "",
                      result |-> SelectValidatorIn(pos, order, again)]
        /\ UNCHANGED <<Blocks, Mempool, now>>

\* pos.Validate(validatorAddress) on the same object
Validate(validatorAddress) ==
    LET pos == NewProofOfStake(Last(Blocks), CalculateStakeFromBlockchain(Blocks))
    IN  /\ \E order \in IterationOrders(pos.Stakeholders),
              again \in IterationOrders(pos.Stakeholders) :
              ret' = [op |-> "Validate", err |-> "", Pos |-> pos, arg |-> validatorAddress,
                      result |-> ValidateIn(pos, validatorAddress, order, again)]
        /\ UNCHANGED <<Blocks, Mempool, now>>

CreateBlockWithPoS(transactions, validatorAddress) ==
    /\ Len(Blocks) < MaxBlocks
    /\ LET err == FirstBalanceError(Blocks, transactions)
       IN  IF err # ""
           THEN /\ ret' = [op |-> "CreateBlockWithPoS", err |-> err]
                /\ UNCHANGED <<Blocks, now>>
           ELSE \E t \in Times :
                  LET prevBlock == Last(Blocks)
                      newBlock  == NewBlock(prevBlock.Index + 1, t, transactions, prevBlock.Hash)
                      pos       == NewProofOfStake(newBlock, CalculateStakeFromBlockchain(Blocks))
                  IN  /\ now' = t
                      /\ \E order \in IterationOrders(pos.Stakeholders),
                            again \in IterationOrders(pos.Stakeholders) :
                            IF ValidateIn(pos, validatorAddress, order, again)
                            THEN /\ Blocks' = Append(Blocks, Sealed(newBlock))
                                 /\ ret' = [op |-> "CreateBlockWithPoS", err |-> ""]
                            ELSE /\ UNCHANGED Blocks
                                 /\ ret' = [op |-> "CreateBlockWithPoS",
                                            err |-> "invalid validator"]
    /\ UNCHANGED Mempool

Validators == {"A", "B", "C"}

NextPoS ==
    /\ \/ \E transactions \in ConsensusTxLists : AddBlockWithReward(transactions, "")
       \/ SelectValidator
       \/ \E validatorAddress \in Validators : Validate(validatorAddress)
       \/ \E transactions \in ConsensusTxLists, validatorAddress \in Validators :
             CreateBlockWithPoS(transactions, validatorAddress)
    /\ UNCHANGED <<rn, net, nodeBlocks, pbft, pc, sc, thr>>

SpecPoS == Init /\ [][NextPoS]_vars

\* C39: two calls of SelectValidator, or of Validate with one address, on one candidate block
\* and one stake table return the same answer
C39_SelectionDeterministic ==
    [][(/\ ret.op \in {"SelectValidator", "Validate"}
        /\ ret'.op = ret.op
        /\ ret'.Pos = ret.Pos
        /\ ret'.arg = ret.arg) => ret'.result = ret.result]_vars

-----------------------------------------------------------------------------
(* bridge.go: chain B of the bridge is the local chain *)

BridgeStatusPending   == "pending"
BridgeStatusApproved  == "approved"
BridgeStatusCompleted == "completed"

BridgeDirectionAToB == "a_to_b"
BridgeDirectionBToA == "b_to_a"

\* Bridge.Fee is 0.01: the fee on an amount, times FeeScale
FeeScale == 100
ScaledFee(amount) == amount

\* balance < amount + amount * Fee
BridgeCannotPay(balance, amount) == FeeScale * balance < FeeScale * amount + ScaledFee(amount)

\* MinAmount is 0.1 and MaxAmount 10000, amounts are whole coins
BelowMinimum(amount) == amount < 1
AboveMaximum(amount) == amount > 10000

\* Nano is time.Now().UnixNano(), taken to differ from one call to the next
NewBridge(bridgeID, chainA, chainAName, chainBName, requiredSigs) ==
    [BridgeID |-> bridgeID, ChainA |-> chainA, ChainAName |-> chainAName,
     ChainBName |-> chainBName, RequiredSigs |-> requiredSigs,
     Txs |-> <<>>, PendingTxs |-> {}, CompletedTxs |-> {}, Events |-> <<>>,
     RelayerAddress |-> "relayer_" \o bridgeID, Nano |-> 0]

generateLockTxHash(from, to, amount, nano) ==
    "L" \o Sha256("lock:" \o from \o ":" \o to \o ":" \o Itoa(amount) \o ":" \o Itoa(nano))

generateUnlockTxHash(to, amount, nano) ==
    "U" \o Sha256("unlock:" \o to \o ":" \o Itoa(amount) \o ":" \o Itoa(nano))

generateBridgeTxID(lockTxHash, fromChain, toChain, nano) ==
    Sha256("bridge:" \o lockTxHash \o ":" \o fromChain \o ":" \o toChain \o ":" \o Itoa(nano))

emitEvent(b, eventType, chain, txHash) ==
    [b EXCEPT !.Events = Append(@, [EventType |-> eventType, Chain |-> chain, TxHash |-> txHash])]

\* b.PendingTxs[txID] = bridgeTx: the map and the object the pointer leads to
StorePending(b, bridgeTx) ==
    [b EXCEPT !.Txs = [id \in DOMAIN b.Txs \cup {bridgeTx.TxID} |->
                          IF id = bridgeTx.TxID THEN bridgeTx ELSE b.Txs[id]],
              !.PendingTxs = @ \cup {bridgeTx.TxID}]

NewBridgeTransaction(b, fromChain, toChain, fromAddress, toAddress, amount, token, direction) ==
    LET lockTxHash == generateLockTxHash(fromAddress, toAddress, amount, b.Nano)
    IN  [TxID |-> generateBridgeTxID(lockTxHash, fromChain, toChain, b.Nano),
         FromChain |-> fromChain, ToChain |-> toChain,
         FromAddress |-> fromAddress, ToAddress |-> toAddress, Amount |-> amount,
         Token |-> token, Status |-> BridgeStatusPending, Direction |-> direction,
         Approvals |-> 0, RequiredSigs |-> b.RequiredSigs, Signatures |-> <<>>,
         LockTxHash |-> lockTxHash, UnlockTxHash |-> ""]

LockFunds(fromAddress, toAddress, amount, token) ==
    LET err == IF BelowMinimum(amount) THEN "amount below minimum"
               ELSE IF AboveMaximum(amount) THEN "amount above maximum"
               ELSE IF BridgeCannotPay(GetBalance(sc.ChainA, fromAddress), amount)
                    THEN "insufficient balance on " \o sc.ChainAName
               ELSE ""
        bridgeTx == NewBridgeTransaction(sc, sc.ChainAName, sc.ChainBName, fromAddress,
                                         toAddress, amount, token, BridgeDirectionAToB)
    IN  /\ Cardinality(DOMAIN sc.Txs) < MaxBridgeTxs
        /\ sc' = IF err # "" THEN sc
                 ELSE [emitEvent(StorePending(sc, bridgeTx), "lock", sc.ChainAName,
                                 bridgeTx.LockTxHash) EXCEPT !.Nano = @ + 1]
        /\ ret' = [op |-> "LockFunds", err |-> err, TxID |-> IF err = "" THEN bridgeTx.TxID ELSE ""]
        /\ UNCHANGED <<Blocks, Mempool, now>>

ReverseTransfer(fromAddress, toAddress, amount, token) ==
    LET err == IF BridgeCannotPay(GetBalance(Blocks, fromAddress), amount)
               THEN "insufficient balance on " \o sc.ChainBName
               ELSE ""
        bridgeTx == NewBridgeTransaction(sc, sc.ChainBName, sc.ChainAName, fromAddress,
                                         toAddress, amount, token, BridgeDirectionBToA)
    IN  /\ Cardinality(DOMAIN sc.Txs) < MaxBridgeTxs
        /\ sc' = IF err # "" THEN sc
                 ELSE [emitEvent(StorePending(sc, bridgeTx), "lock", sc.ChainBName,
                                 bridgeTx.LockTxHash) EXCEPT !.Nano = @ + 1]
        /\ ret' = [op |-> "ReverseTransfer", err |-> err,
                   TxID |-> IF err = "" THEN bridgeTx.TxID ELSE ""]
        /\ UNCHANGED <<Blocks, Mempool, now>>

InSeq(x, s) == \E k \in 1..Len(s) : s[k] = x

ApproveTransaction(txID, validatorID, signature) ==
    /\ IF txID \notin sc.PendingTxs
       THEN /\ ret' = [op |-> "ApproveTransaction", err |-> "transaction not found",
                       TxID |-> txID]
            /\ UNCHANGED sc
       ELSE IF InSeq(signature, sc.Txs[txID].Signatures)
       THEN /\ ret' = [op |-> "ApproveTransaction", err |-> "already approved by validator",
                       TxID |-> txID]
            /\ UNCHANGED sc
       ELSE LET signed == [sc.Txs[txID] EXCEPT !.Signatures = Append(@, signature),
                                               !.Approvals = @ + 1]
                after  == IF signed.Approvals >= signed.RequiredSigs
                          THEN [signed EXCEPT !.Status = BridgeStatusApproved]
                          ELSE signed
            IN  /\ sc' = emitEvent([sc EXCEPT !.Txs[txID] = after], "approval",
                                   sc.ChainAName, txID)
                /\ ret' = [op |-> "ApproveTransaction", err |-> "", TxID |-> txID]
    /\ UNCHANGED <<Blocks, Mempool, now>>

\* Blockchain.AddBlock on the given chain at time t: the chain and the mempool after it, and
\* the error it returns
AddBlockTo(blocks, mp, transactions, t) ==
    LET err == FirstTxError(blocks, transactions)
        prevBlock == Last(blocks)
    IN  IF err # "" THEN <<blocks, mp, err>>
        ELSE <<Append(blocks, Mine(NewBlock(prevBlock.Index + 1, t, transactions, prevBlock.Hash))),
               RemoveTransactions(mp, TxHashes(transactions)), "">>

\* UnlockFunds(bridgeTx), bridgeTx being the transaction the bridge handed out under txID
UnlockFunds(txID) ==
    LET bridgeTx == sc.Txs[txID]
    IN  /\ txID \in DOMAIN sc.Txs
        /\ Len(Blocks) < MaxBlocks
        /\ IF bridgeTx.Status # BridgeStatusApproved
           THEN /\ ret' = [op |-> "UnlockFunds", err |-> "transaction not approved", TxID |-> txID]
                /\ UNCHANGED <<Blocks, Mempool, now, sc>>
           ELSE \E t \in Times :
                  LET unlockTxHash == generateUnlockTxHash(bridgeTx.ToAddress, bridgeTx.Amount,
                                                           sc.Nano)
                      coinbaseTx == NewTransaction(sc.RelayerAddress, bridgeTx.ToAddress,
                                                   bridgeTx.Amount)
                      added == AddBlockTo(Blocks, Mempool, <<coinbaseTx>>, t)
                      done  == [bridgeTx EXCEPT !.UnlockTxHash = unlockTxHash,
                                                !.Status = BridgeStatusCompleted]
                  \* the error of b.ChainB.AddBlock, added[3], is dropped
                  IN  /\ Blocks' = added[1]
                      /\ Mempool' = added[2]
                      /\ now' = IF added[3] = "" THEN t ELSE now
                      /\ sc' = [emitEvent([sc EXCEPT !.Txs[txID] = done,
                                                     !.PendingTxs = @ \ {txID},
                                                     !.CompletedTxs = @ \cup {txID}],
                                          "unlock", sc.ChainBName, unlockTxHash)
                                   EXCEPT !.Nano = @ + 1]
                      /\ ret' = [op |-> "UnlockFunds", err |-> "", TxID |-> txID]

Relayer == "relayer_b1"

cbRelayer == NewTransaction("", Relayer, 50)

InitBridge ==
    /\ InitChain
    /\ sc = NewBridge("b1",
                      <<GenesisBlock(0), Mine(NewBlock(1, 0, <<cbA>>, GenesisBlock(0).Hash))>>,
                      "ChainA", "ChainB", 2)
    /\ rn = <<>> /\ net = {} /\ nodeBlocks = <<>>
    /\ pbft = <<>>
    /\ pc = <<>>
    /\ thr = <<>>

BridgeAmounts == {0, 10, 40}

NextBridge ==
    /\ \/ /\ AddBlockWithReward(<<cbRelayer>>, "")
          /\ UNCHANGED sc
       \/ \E toAddress \in {"B", Relayer}, amount \in BridgeAmounts :
             LockFunds("A", toAddress, amount, "COIN")
       \/ \E amount \in BridgeAmounts : ReverseTransfer("B", "A", amount, "COIN")
       \/ \E txID \in DOMAIN sc.Txs, signature \in {"s1", "s2"} :
             ApproveTransaction(txID, "v1", signature)
       \/ \E txID \in DOMAIN sc.Txs : UnlockFunds(txID)
    /\ UNCHANGED <<rn, net, nodeBlocks, pbft, pc, thr>>

SpecBridge == InitBridge /\ [][NextBridge]_vars

\* C40: when UnlockFunds returns success and has marked the transaction completed, chain B
\* has one block more, the transaction of that block pays Amount to ToAddress, and the
\* balance of ToAddress on chain B is Amount above what it was
C40_UnlockCredits ==
    [][(/\ ret'.op = "UnlockFunds"
        /\ ret'.err = ""
        /\ ret'.TxID \in DOMAIN sc.Txs
        /\ sc.Txs[ret'.TxID].Status = BridgeStatusApproved
        /\ sc'.Txs[ret'.TxID].Status = BridgeStatusCompleted)
       => LET bridgeTx == sc.Txs[ret'.TxID]
          IN  /\ Len(Blocks') = Len(Blocks) + 1
              /\ \E k \in 1..Len(Last(Blocks').Transactions) :
                    /\ Last(Blocks').Transactions[k].To = bridgeTx.ToAddress
                    /\ Last(Blocks').Transactions[k].Amount = bridgeTx.Amount
              /\ GetBalance(Blocks', bridgeTx.ToAddress)
                    = GetBalance(Blocks, bridgeTx.ToAddress) + bridgeTx.Amount]_vars

====
